---- MODULE Spec2Model ----
(***************************************************************************)
(* A model of the nano-banana MCP server's request pipeline:               *)
(*   - src/src/gemini.ts       generateImage and its helpers               *)
(*   - src/unnamed/part_000    tools.ts with the multi-location fallback   *)
(*   - src/unnamed/part_001    tools.ts of the absolute-path-only variant  *)
(* JavaScript strings are TLA+ strings (Len, \o and SubSeq work on them),  *)
(* an optional value (T | undefined) is a sequence of length 0 or 1.       *)
(***************************************************************************)
EXTENDS Integers, Sequences, FiniteSets, TLC

VARIABLES
    env,            \* process.env: the four configuration keys the code reads
    cachedClient,   \* gemini.ts:10
    cachedApiKey,   \* gemini.ts:11
    clientsMade,    \* how many GoogleGenAI handles were constructed so far
    gpc,            \* position of the generateImage invocation
    attempt,        \* gemini.ts:94   the loop counter
    client,         \* gemini.ts:91   the handle this invocation uses
    model,          \* gemini.ts:92
    response,       \* gemini.ts:96   the awaited backend response
    error,          \* gemini.ts:138  the value caught by the catch block
    backoffMs,      \* gemini.ts:141
    genResult,      \* the value generateImage resolved with
    genThrown,      \* the Error generateImage rejected with
    genLog,         \* history of the invocation: backend calls, failures, waits
    spc,            \* position of the saveImage invocation
    data,           \* saveImage's first argument (base64 text)
    savePath,       \* saveImage's second argument
    buffer,         \* part_000:98
    attempts,       \* part_000:104
    attemptIdx,     \* position of the for-of loop of part_000:128 in attempts
    filePath,       \* part_000:130
    saveError,      \* part_000:150  the value caught by the catch block
    firstFailureMessage,    \* part_000:125
    lastError,      \* part_000:126
    saveResult,     \* the value saveImage resolved with
    saveThrown,     \* the Error saveImage rejected with
    dirs,           \* the filesystem: directories created
    files,          \* the filesystem: file path -> bytes
    usable,         \* the environment: directories in which every operation succeeds
    fsLog,          \* history of filesystem operations
    saveLog,        \* history of the attempts of the saveImage invocation
    hpc,            \* position of the generate_image handler invocation
    hResponse,      \* the responses the handler returned, in order
    hThrown,        \* what escaped the handler's try/catch, if anything
    inv             \* two concurrent saveImage invocations: position and locals of each

genVars == <<gpc, attempt, client, model, response, error, backoffMs,
             genResult, genThrown, genLog>>
cacheVars == <<cachedClient, cachedApiKey, clientsMade>>
saveVars == <<spc, data, savePath, buffer, attempts, attemptIdx, filePath, saveError,
              firstFailureMessage, lastError, saveResult, saveThrown, saveLog>>
fsVars == <<dirs, files, usable, fsLog>>
handlerVars == <<hpc, hResponse, hThrown, inv>>

(***************************************************************************)
(* Optional values                                                         *)
(***************************************************************************)
None == <<>>
Some(v) == <<v>>
IsSome(o) == Len(o) = 1
Get(o) == o[1]

(***************************************************************************)
(* JavaScript string primitives, computed character by character           *)
(***************************************************************************)
UpperLetters == "ABCDEFGHIJKLMNOPQRSTUVWXYZ"
LowerLetters == "abcdefghijklmnopqrstuvwxyz"
Digits == "0123456789"

CharAt(s, i) == SubSeq(s, i, i)

LowerChar(c) ==
    IF \E i \in 1..Len(UpperLetters) : CharAt(UpperLetters, i) = c
    THEN CharAt(LowerLetters, CHOOSE i \in 1..Len(UpperLetters) : CharAt(UpperLetters, i) = c)
    ELSE c

RECURSIVE toLowerCase(_)
toLowerCase(s0) ==
    CHOOSE result \in {(
        IF Len(s) = 0 THEN ""
        ELSE LowerChar(CharAt(s, 1)) \o toLowerCase(SubSeq(s, 2, Len(s)))
        ) : s \in {s0}} : TRUE

includes(s0, t0) ==
    \E s \in {s0}, t \in {t0} :
        \E i \in 1..(Len(s) - Len(t) + 1) : SubSeq(s, i, i + Len(t) - 1) = t

startsWith(s, t) == Len(t) <= Len(s) /\ SubSeq(s, 1, Len(t)) = t

IsSpace(c) == c \in {" ", "\t", "\n"}

RECURSIVE trimStart(_)
trimStart(s0) ==
    CHOOSE result \in {(
        IF Len(s) > 0 /\ IsSpace(CharAt(s, 1)) THEN trimStart(SubSeq(s, 2, Len(s))) ELSE s
        ) : s \in {s0}} : TRUE

RECURSIVE trimEnd(_)
trimEnd(s0) ==
    CHOOSE result \in {(
        IF Len(s) > 0 /\ IsSpace(CharAt(s, Len(s))) THEN trimEnd(SubSeq(s, 1, Len(s) - 1)) ELSE s
        ) : s \in {s0}} : TRUE

trim(s) == trimEnd(trimStart(s))

RECURSIVE NumToString(_)
NumToString(n0) ==
    CHOOSE result \in {(
        IF n < 10 THEN CharAt(Digits, n + 1)
        ELSE NumToString(n \div 10) \o CharAt(Digits, (n % 10) + 1)
        ) : n \in {n0}} : TRUE

RECURSIVE Pow2(_)
Pow2(n0) ==
    CHOOSE result \in {(
        IF n = 0 THEN 1 ELSE 2 * Pow2(n - 1)
        ) : n \in {n0}} : TRUE

(***************************************************************************)
(* gemini.ts: constants                                                    *)
(***************************************************************************)
DEFAULT_IMAGE_MODEL == "gemini-3-pro-image-preview"
MAX_RETRIES == 2
RETRY_BACKOFF_MS == 500
RETRYABLE_STATUS_CODES == {408, 429, 500, 502, 503, 504}

(***************************************************************************)
(* Values a try block can throw.  kind "ApiError" is the SDK's ApiError    *)
(* (an Error subclass with a numeric status), "Error" any other Error,     *)
(* "Other" a thrown value that is not an Error.                            *)
(***************************************************************************)
ApiError(status, message) ==
    [kind |-> "ApiError", status |-> Some(status), message |-> Some(message)]
PlainError(message) ==
    [kind |-> "Error", status |-> None, message |-> Some(message)]
OtherValue(status, message) ==
    [kind |-> "Other", status |-> status, message |-> message]
StatusError(status, message) ==
    [kind |-> "Error", status |-> Some(status), message |-> Some(message)]

IsErrorInstance(e) == e.kind \in {"ApiError", "Error"}
JsError(message) == [kind |-> "Error", status |-> None, message |-> Some(message)]

(***************************************************************************)
(* gemini.ts: configuration                                                *)
(***************************************************************************)
Nullish(a, b) == IF IsSome(a) THEN a ELSE b
Truthy(o) == IsSome(o) /\ Get(o) # ""

MissingKeyMessage ==
    "GEMINI_API_KEY (or GOOGLE_API_KEY) environment variable is required for image generation."

\* getConfiguredApiKey without the fallback to GOOGLE_API_KEY
getConfiguredApiKeyPrimaryOnly(e) ==
    IF ~Truthy(e.GEMINI_API_KEY)
    THEN [throws |-> TRUE, apiKey |-> e.GEMINI_API_KEY]
    ELSE [throws |-> FALSE, apiKey |-> e.GEMINI_API_KEY]

\* lines 13-19: throws is TRUE when the function throws MissingKeyMessage
getConfiguredApiKey(e) ==
    LET apiKey == Nullish(e.GEMINI_API_KEY, e.GOOGLE_API_KEY)
    IN  IF ~Truthy(apiKey)
        THEN [throws |-> TRUE, apiKey |-> apiKey]
        ELSE [throws |-> FALSE, apiKey |-> apiKey]

\* lines 21-24
getModelName(e) ==
    LET configuredModel ==
            IF IsSome(e.GEMINI_IMAGE_MODEL) THEN Some(trim(Get(e.GEMINI_IMAGE_MODEL))) ELSE None
    IN  IF Truthy(configuredModel) THEN Get(configuredModel) ELSE DEFAULT_IMAGE_MODEL

\* a getClient that hands out the cached handle whatever the key is
getClientIgnoringKey(cc, ck, made, apiKey) ==
    IF ~IsSome(cc)
    THEN [cachedClient |-> Some([id |-> made + 1, apiKey |-> apiKey]),
          cachedApiKey |-> Some(apiKey),
          clientsMade  |-> made + 1,
          handle       |-> [id |-> made + 1, apiKey |-> apiKey]]
    ELSE [cachedClient |-> cc,
          cachedApiKey |-> ck,
          clientsMade  |-> made,
          handle       |-> Get(cc)]

\* lines 26-35, after getConfiguredApiKey returned apiKey: the cache afterwards
\* and the handle returned
getClient(cc, ck, made, apiKey) ==
    IF ~IsSome(cc) \/ ck # Some(apiKey)
    THEN [cachedClient |-> Some([id |-> made + 1, apiKey |-> apiKey]),
          cachedApiKey |-> Some(apiKey),
          clientsMade  |-> made + 1,
          handle       |-> [id |-> made + 1, apiKey |-> apiKey]]
    ELSE [cachedClient |-> cc,
          cachedApiKey |-> ck,
          clientsMade  |-> made,
          handle       |-> Get(cc)]

\* a bound on the getClient calls of one run
MaxCalls == 4

ClientCall(outcome, handle) == [ev |-> "getClient", outcome |-> outcome, handle |-> handle]

\* process.env.GEMINI_API_KEY or process.env.GOOGLE_API_KEY is set or deleted
\* between two calls
SetCredential ==
    /\ \E a \in {None, Some(""), Some("key-1"), Some("key-2")},
          b \in {None, Some("key-1"), Some("key-2")} :
          /\ env' = [env EXCEPT !.GEMINI_API_KEY = a, !.GOOGLE_API_KEY = b]
          /\ env' # env
    /\ UNCHANGED <<cacheVars, genVars, saveVars, fsVars, handlerVars>>

\* a getClient call that forgets the cache when the credential is missing
GetClientCallClearingOnFailure ==
    /\ Len(genLog) < MaxCalls
    /\ LET key == getConfiguredApiKey(env)
       IN  IF key.throws
           THEN /\ genThrown' = Some(JsError(MissingKeyMessage))
                /\ client' = None
                /\ genLog' = Append(genLog, ClientCall("threw", None))
                /\ cachedClient' = None
                /\ cachedApiKey' = None
                /\ UNCHANGED clientsMade
           ELSE LET got == getClient(cachedClient, cachedApiKey, clientsMade, Get(key.apiKey))
                IN  /\ cachedClient' = got.cachedClient
                    /\ cachedApiKey' = got.cachedApiKey
                    /\ clientsMade' = got.clientsMade
                    /\ client' = Some(got.handle)
                    /\ genThrown' = None
                    /\ genLog' = Append(genLog,
                                        ClientCall(IF got.clientsMade = clientsMade
                                                   THEN "reused" ELSE "created",
                                                   Some(got.handle)))
    /\ UNCHANGED <<gpc, attempt, model, response, error, backoffMs, genResult>>
    /\ UNCHANGED <<env, saveVars, fsVars, handlerVars>>

\* lines 26-35: one call of getClient, which returns a handle or throws
GetClientCall ==
    /\ Len(genLog) < MaxCalls
    /\ LET key == getConfiguredApiKey(env)
       IN  IF key.throws
           THEN /\ genThrown' = Some(JsError(MissingKeyMessage))
                /\ client' = None
                /\ genLog' = Append(genLog, ClientCall("threw", None))
                /\ UNCHANGED cacheVars
           ELSE LET got == getClient(cachedClient, cachedApiKey, clientsMade, Get(key.apiKey))
                IN  /\ cachedClient' = got.cachedClient
                    /\ cachedApiKey' = got.cachedApiKey
                    /\ clientsMade' = got.clientsMade
                    /\ client' = Some(got.handle)
                    /\ genThrown' = None
                    /\ genLog' = Append(genLog,
                                        ClientCall(IF got.clientsMade = clientsMade
                                                   THEN "reused" ELSE "created",
                                                   Some(got.handle)))
    /\ UNCHANGED <<gpc, attempt, model, response, error, backoffMs, genResult>>
    /\ UNCHANGED <<env, saveVars, fsVars, handlerVars>>

(***************************************************************************)
(* gemini.ts: failure classification and translation                       *)
(***************************************************************************)
\* isRetryableGeminiError without the instanceof ApiError branch
isRetryableIgnoringKind(e) ==
    IF IsSome(e.status) /\ Get(e.status) \in RETRYABLE_STATUS_CODES
    THEN TRUE
    ELSE \E message \in {toLowerCase(IF IsSome(e.message) THEN Get(e.message) ELSE "")} :
             \/ includes(message, "timeout")
             \/ includes(message, "timed out")
             \/ includes(message, "etimedout")
             \/ includes(message, "econnreset")
             \/ includes(message, "temporar")

\* lines 37-55
isRetryableGeminiError(e) ==
    IF e.kind = "ApiError"
    THEN Get(e.status) \in RETRYABLE_STATUS_CODES
    ELSE IF IsSome(e.status) /\ Get(e.status) \in RETRYABLE_STATUS_CODES
    THEN TRUE
    ELSE \E message \in {toLowerCase(IF IsSome(e.message) THEN Get(e.message) ELSE "")} :
             \/ includes(message, "timeout")
             \/ includes(message, "timed out")
             \/ includes(message, "etimedout")
             \/ includes(message, "econnreset")
             \/ includes(message, "temporar")

AuthMessage ==
    "Gemini API authentication failed. Check GEMINI_API_KEY/GOOGLE_API_KEY and permissions."
RateLimitMessage == "Gemini API rate limit reached. Please retry in a moment."
UnavailableMessage == "Gemini API is temporarily unavailable. Please retry shortly."
UnknownMessage == "Failed to generate image due to an unknown error."

\* toUserFacingGeminiError with the server-error test written > 500
toUserFacingStrictly5xx(e) ==
    IF e.kind = "ApiError"
    THEN IF Get(e.status) = 401 \/ Get(e.status) = 403
         THEN JsError(AuthMessage)
         ELSE IF Get(e.status) = 429
         THEN JsError(RateLimitMessage)
         ELSE IF Get(e.status) > 500
         THEN JsError(UnavailableMessage)
         ELSE JsError("Gemini API request failed (status " \o NumToString(Get(e.status))
                          \o "): " \o Get(e.message))
    ELSE IF IsErrorInstance(e)
    THEN JsError("Failed to generate image: " \o Get(e.message))
    ELSE JsError(UnknownMessage)

\* lines 57-79
toUserFacingGeminiError(e) ==
    IF e.kind = "ApiError"
    THEN IF Get(e.status) = 401 \/ Get(e.status) = 403
         THEN JsError(AuthMessage)
         ELSE IF Get(e.status) = 429
         THEN JsError(RateLimitMessage)
         ELSE IF Get(e.status) >= 500
         THEN JsError(UnavailableMessage)
         ELSE JsError("Gemini API request failed (status " \o NumToString(Get(e.status))
                          \o "): " \o Get(e.message))
    ELSE IF IsErrorInstance(e)
    THEN JsError("Failed to generate image: " \o Get(e.message))
    ELSE JsError(UnknownMessage)

(***************************************************************************)
(* Buffers: a Buffer is a sequence of bytes; base64 as Node decodes and     *)
(* encodes it (decoding stops at the first '=', skips characters outside    *)
(* the alphabet and drops an incomplete trailing group).                    *)
(***************************************************************************)
Base64Alphabet == "ABCDEFGHIJKLMNOPQRSTUVWXYZabcdefghijklmnopqrstuvwxyz0123456789+/"

IsBase64Char(c) == \E i \in 1..Len(Base64Alphabet) : CharAt(Base64Alphabet, i) = c
Sextet(c) == (CHOOSE i \in 1..Len(Base64Alphabet) : CharAt(Base64Alphabet, i) = c) - 1

RECURSIVE Sextets(_)
Sextets(s0) ==
    CHOOSE result \in {(
        IF Len(s) = 0 \/ CharAt(s, 1) = "=" THEN <<>>
        ELSE IF IsBase64Char(CharAt(s, 1))
        THEN <<Sextet(CharAt(s, 1))>> \o Sextets(SubSeq(s, 2, Len(s)))
        ELSE Sextets(SubSeq(s, 2, Len(s)))
        ) : s \in {s0}} : TRUE

RECURSIVE BytesOfSextets(_)
BytesOfSextets(q0) ==
    CHOOSE result \in {(
        IF Len(q) < 2 THEN <<>>
        ELSE IF Len(q) = 2 THEN <<(q[1] * 64 + q[2]) \div 16>>
        ELSE IF Len(q) = 3
        THEN LET n == q[1] * 4096 + q[2] * 64 + q[3]
             IN  <<n \div 1024, (n \div 4) % 256>>
        ELSE LET n == q[1] * 262144 + q[2] * 4096 + q[3] * 64 + q[4]
             IN  <<n \div 65536, (n \div 256) % 256, n % 256>> \o BytesOfSextets(SubSeq(q, 5, Len(q)))
        ) : q \in {q0}} : TRUE

\* Buffer.from(data, "base64")
BufferFromBase64(b64) == BytesOfSextets(Sextets(b64))

B64(n) == CharAt(Base64Alphabet, n + 1)

RECURSIVE BufferToBase64(_)
\* buffer.toString("base64")
BufferToBase64(b0) ==
    CHOOSE result \in {(
        IF Len(b) = 0 THEN ""
        ELSE IF Len(b) = 1
        THEN B64(b[1] \div 4) \o B64((b[1] % 4) * 16) \o "=="
        ELSE IF Len(b) = 2
        THEN B64(b[1] \div 4) \o B64((b[1] % 4) * 16 + b[2] \div 16)
                \o B64((b[2] % 16) * 4) \o "="
        ELSE B64(b[1] \div 4) \o B64((b[1] % 4) * 16 + b[2] \div 16)
                \o B64((b[2] % 16) * 4 + b[3] \div 64) \o B64(b[3] % 64)
                \o BufferToBase64(SubSeq(b, 4, Len(b)))
        ) : b \in {b0}} : TRUE

(***************************************************************************)
(* sharp(...).jpeg({quality: 85}).toBuffer(): an external transform.  Its   *)
(* output is the input framed by the JPEG start and end markers; it rejects *)
(* an empty input, and may reject any input.                                *)
(***************************************************************************)
SharpJpeg(bytes) == <<255, 216>> \o bytes \o <<255, 217>>
SharpEmptyMessage == "Input Buffer is empty"
SharpMessages ==
    {"Input buffer contains unsupported image format",
     "VipsJpeg: unable to open temporary file"}

(***************************************************************************)
(* What the backend can answer to one generateContent call                  *)
(***************************************************************************)
MaxParts == 2

ImagePart(b64) == [inlineData |-> Some(b64), text |-> None]
TextPart(text) == [inlineData |-> None, text |-> Some(text)]

PartSamples ==
    {ImagePart("QUJD"), ImagePart("QQ=="), ImagePart("===="),
     TextPart("request timed out, temporary"),
     [inlineData |-> Some(""), text |-> Some("note")]}

SeqsUpTo(S, n) == UNION {[1..k -> S] : k \in 0..n}

\* response.candidates?.[0]?.content?.parts: undefined or a list
Responses ==
    {[parts |-> None]} \cup {[parts |-> Some(ps)] : ps \in SeqsUpTo(PartSamples, MaxParts)}

BackendMessages ==
    {"bad request", "quota exceeded", "Request Timed Out", "connect ETIMEDOUT 10.0.0.1:443",
     "read ECONNRESET", "Service Temporarily Overloaded", "deadline: TIMEOUT",
     "Connection reset by peer"}

ApiErrorStatuses == {400, 401, 403, 404, 408, 429, 500, 501, 502, 503, 504}

Failures ==
    {ApiError(st, m) : st \in ApiErrorStatuses, m \in BackendMessages}
    \cup {PlainError(m) : m \in BackendMessages}
    \cup {StatusError(st, m) : st \in {401, 429, 503}, m \in {"bad request", "read ECONNRESET"}}
    \cup {OtherValue(st, m) : st \in {None, Some(400), Some(503)},
                              m \in {None, Some("quota exceeded"), Some("socket timeout")}}

(***************************************************************************)
(* gemini.ts: generateImage, lines 90-151                                   *)
(***************************************************************************)
NoPartsMessage == "No content parts returned from Gemini API."
\* a no-image message worded like a transient failure
NoImageMessageTimedOut == "Timed out waiting for image data in the response."
NoImageMessage == "No image data found in the response."

\* lines 113-122: the scan of the parts, from the state (imageData, text)
RECURSIVE ScanParts(_, _, _)
ScanParts(parts0, imageData0, text0) ==
    CHOOSE result \in {(
        IF Len(parts) = 0 THEN [imageData |-> imageData, text |-> text]
        ELSE LET part == Head(parts)
             IN  IF Truthy(part.inlineData)
                 THEN ScanParts(Tail(parts), part.inlineData, text)
                 ELSE IF Truthy(part.text)
                 THEN ScanParts(Tail(parts), imageData,
                                IF Truthy(text) THEN Some(Get(text) \o "\n" \o Get(part.text))
                                ELSE part.text)
                 ELSE ScanParts(Tail(parts), imageData, text)
        ) : parts \in {parts0}, imageData \in {imageData0}, text \in {text0}} : TRUE

Event(ev, n, flag, ms) == [ev |-> ev, attempt |-> n, flag |-> flag, ms |-> ms]

\* lines 90-92: getClient() and getModelName(), before the loop
CallGenerateImage ==
    /\ gpc = "idle"
    /\ LET key == getConfiguredApiKey(env)
       IN  IF key.throws
           THEN /\ gpc' = "thrown"
                /\ genThrown' = Some(JsError(MissingKeyMessage))
                /\ UNCHANGED <<cacheVars, client, model, attempt>>
           ELSE LET got == getClient(cachedClient, cachedApiKey, clientsMade, Get(key.apiKey))
                IN  /\ cachedClient' = got.cachedClient
                    /\ cachedApiKey' = got.cachedApiKey
                    /\ clientsMade' = got.clientsMade
                    /\ client' = Some(got.handle)
                    /\ model' = getModelName(env)
                    /\ attempt' = 0
                    /\ gpc' = "loop"
                    /\ UNCHANGED genThrown
    /\ UNCHANGED <<handlerVars, saveVars, fsVars, env, response, error, backoffMs, genResult, genLog>>

\* the loop condition of line 94
LoopCondition(n) == n <= MAX_RETRIES

\* a loop head that reads the model name again for every request
GenRequestRereadingModel ==
    /\ gpc = "loop"
    /\ IF LoopCondition(attempt)
       THEN /\ gpc' = "await"
            /\ genLog' = Append(genLog, Event("call", attempt, FALSE, 0))
            /\ UNCHANGED genThrown
       ELSE /\ gpc' = "thrown"
            /\ genThrown' = Some(JsError("Failed to generate image after retry attempts."))
            /\ UNCHANGED genLog
    /\ response' = None
    /\ error' = None
    /\ backoffMs' = 0
    /\ model' = getModelName(env)
    /\ UNCHANGED <<handlerVars, saveVars, fsVars, env, cacheVars, attempt, client, genResult>>

\* lines 94-105: the loop head and the request; line 150 when the loop ends
GenRequest ==
    /\ gpc = "loop"
    /\ IF LoopCondition(attempt)
       THEN /\ gpc' = "await"
            /\ genLog' = Append(genLog, Event("call", attempt, FALSE, 0))
            /\ UNCHANGED genThrown
       ELSE /\ gpc' = "thrown"
            /\ genThrown' = Some(JsError("Failed to generate image after retry attempts."))
            /\ UNCHANGED genLog
    \* response, error and backoffMs are scoped to one iteration
    /\ response' = None
    /\ error' = None
    /\ backoffMs' = 0
    /\ UNCHANGED <<handlerVars, saveVars, fsVars, env, cacheVars, attempt, client, model, genResult>>

\* line 96: the awaited call resolves with a response
GenRespond ==
    /\ gpc = "await"
    /\ \E r \in Responses :
        /\ response' = Some(r)
        /\ gpc' = "parse"
    /\ UNCHANGED <<handlerVars, saveVars, fsVars, env, cacheVars, attempt, client, model, error, backoffMs,
                   genResult, genThrown, genLog>>

\* line 96: the awaited call rejects; control enters the catch of line 138
GenReject ==
    /\ gpc = "await"
    /\ \E f \in Failures :
        /\ error' = Some(f)
        /\ gpc' = "catch"
    /\ UNCHANGED <<handlerVars, saveVars, fsVars, env, cacheVars, attempt, client, model, response, backoffMs,
                   genResult, genThrown, genLog>>

\* lines 107-137: parts, scan, re-encoding, return; a throw enters the catch
GenParse ==
    /\ gpc = "parse"
    /\ LET parts == Get(response).parts
       IN  IF ~IsSome(parts) \/ Len(Get(parts)) = 0
           THEN /\ error' = Some(JsError(NoPartsMessage))
                /\ gpc' = "catch"
                /\ UNCHANGED <<genResult, genLog>>
           ELSE LET scan == ScanParts(Get(parts), None, None)
                IN  IF ~Truthy(scan.imageData)
                    THEN /\ error' = Some(JsError(NoImageMessage))
                         /\ gpc' = "catch"
                         /\ UNCHANGED <<genResult, genLog>>
                    ELSE LET input == BufferFromBase64(Get(scan.imageData))
                         IN  \/ /\ Len(input) = 0
                                /\ error' = Some(JsError(SharpEmptyMessage))
                                /\ gpc' = "catch"
                                /\ UNCHANGED <<genResult, genLog>>
                             \/ /\ Len(input) > 0
                                /\ \E m \in SharpMessages : error' = Some(JsError(m))
                                /\ gpc' = "catch"
                                /\ UNCHANGED <<genResult, genLog>>
                             \/ /\ Len(input) > 0
                                /\ genResult' =
                                      Some([data |-> BufferToBase64(SharpJpeg(input)),
                                            mimeType |-> "image/jpeg",
                                            model |-> model,
                                            text |-> IF Truthy(scan.text) THEN scan.text ELSE None])
                                /\ genLog' = Append(genLog, Event("ok", attempt, FALSE, 0))
                                /\ gpc' = "returned"
                                /\ UNCHANGED error
    /\ UNCHANGED <<handlerVars, saveVars, fsVars, env, cacheVars, attempt, client, model, response, backoffMs, genThrown>>

\* shouldRetry that retries every failure while attempts remain
shouldRetryAnyFailure(e, n) == n < MAX_RETRIES

\* line 139
shouldRetry(e, n) == isRetryableGeminiError(e) /\ n < MAX_RETRIES

\* the backoff without the doubling
BackoffConstant(n) == RETRY_BACKOFF_MS

\* line 141
BackoffFor(n) == RETRY_BACKOFF_MS * Pow2(n)

\* a catch block that translates every failure, the retried ones too
GenCatchTranslatingEachFailure ==
    /\ gpc = "catch"
    /\ LET e == Get(error)
           failed == Event("fail", attempt, isRetryableGeminiError(e), 0)
       IN  IF shouldRetry(e, attempt)
           THEN /\ backoffMs' = BackoffFor(attempt)
                /\ genThrown' = Some(toUserFacingGeminiError(e))
                /\ genLog' = genLog \o <<failed, Event("translate", attempt, FALSE, 0),
                                          Event("sleep", attempt, FALSE, BackoffFor(attempt))>>
                /\ gpc' = "sleep"
           ELSE /\ genThrown' = Some(toUserFacingGeminiError(e))
                /\ genLog' = genLog \o <<failed, Event("translate", attempt, FALSE, 0)>>
                /\ gpc' = "thrown"
                /\ UNCHANGED backoffMs
    /\ UNCHANGED <<handlerVars, saveVars, fsVars, env, cacheVars, attempt, client, model, response, error, genResult>>

\* lines 138-147: the catch block up to the sleep or the throw
GenCatch ==
    /\ gpc = "catch"
    /\ LET e == Get(error)
           failed == Event("fail", attempt, isRetryableGeminiError(e), 0)
       IN  IF shouldRetry(e, attempt)
           THEN /\ backoffMs' = BackoffFor(attempt)
                /\ genLog' = genLog \o <<failed, Event("sleep", attempt, FALSE, BackoffFor(attempt))>>
                /\ gpc' = "sleep"
                /\ UNCHANGED genThrown
           ELSE /\ genThrown' = Some(toUserFacingGeminiError(e))
                /\ genLog' = genLog \o <<failed, Event("translate", attempt, FALSE, 0)>>
                /\ gpc' = "thrown"
                /\ UNCHANGED backoffMs
    /\ UNCHANGED <<handlerVars, saveVars, fsVars, env, cacheVars, attempt, client, model, response, error, genResult>>

\* lines 142-143 and the attempt++ of line 94: the sleep ends, the loop continues
GenWake ==
    /\ gpc = "sleep"
    /\ attempt' = attempt + 1
    /\ gpc' = "loop"
    /\ UNCHANGED <<handlerVars, saveVars, fsVars, env, cacheVars, client, model, response, error, backoffMs,
                   genResult, genThrown, genLog>>

(***************************************************************************)
(* tools.ts (part_000): paths.  path.* are Node's POSIX functions on the    *)
(* paths used here, which hold no "." or ".." segment and no doubled "/".   *)
(***************************************************************************)
HomeDir == "/home/user"     \* os.homedir()
TmpDir == "/tmp"            \* os.tmpdir()
Cwd == "/work"              \* process.cwd()

RECURSIVE stripTrailingSlashes(_)
stripTrailingSlashes(p0) ==
    CHOOSE result \in {(
        IF Len(p) > 1 /\ CharAt(p, Len(p)) = "/"
        THEN stripTrailingSlashes(SubSeq(p, 1, Len(p) - 1))
        ELSE p
        ) : p \in {p0}} : TRUE

\* the largest i with CharAt(s, i) = c, or 0
LastIndexOf(s0, c) ==
    CHOOSE result \in {(
        IF \E i \in 1..Len(s) : CharAt(s, i) = c
        THEN CHOOSE i \in 1..Len(s) :
                CharAt(s, i) = c /\ \A j \in (i + 1)..Len(s) : CharAt(s, j) # c
        ELSE 0
        ) : s \in {s0}} : TRUE

basename(p) ==
    CHOOSE result \in
        {SubSeq(q, LastIndexOf(q, "/") + 1, Len(q)) : q \in {stripTrailingSlashes(p)}} : TRUE

\* path.dirname
dirname(p) ==
    CHOOSE result \in
        {LET k == LastIndexOf(q, "/")
         IN  IF k = 0 THEN "." ELSE IF k = 1 THEN "/" ELSE SubSeq(q, 1, k - 1) :
            q \in {stripTrailingSlashes(p)}} : TRUE

\* path.extname: from the last "." of the last segment, unless that segment
\* has no ".", starts with its only "." or is ".."
extname(p) ==
    CHOOSE result \in
        {LET k == LastIndexOf(base, ".")
         IN  IF k = 0 \/ k = 1 \/ base = ".." THEN "" ELSE SubSeq(base, k, Len(base)) :
            base \in {basename(p)}} : TRUE

\* path.isAbsolute
isAbsolute(p) == startsWith(p, "/")

\* path.join of two segments
join(a, b) == IF a = "/" THEN "/" \o b ELSE stripTrailingSlashes(a) \o "/" \o b

\* path.resolve of one relative path
resolve(p) == stripTrailingSlashes(join(Cwd, p))

JPEG_EXTENSIONS == {".jpg", ".jpeg"}

\* new Date().toISOString() and Math.random().toString(36).substring(2, 8):
\* the instants and the suffixes a call can draw
IsoInstants == {"2026-11-05T20:15:19.123Z"}
RandomIds == {"k3x9qa", "7f0m2c"}

\* .replace(/[:.]/g, "-")
RECURSIVE replaceColonDot(_)
replaceColonDot(t0) ==
    CHOOSE result \in {(
        IF Len(t) = 0 THEN ""
        ELSE (IF CharAt(t, 1) \in {":", "."} THEN "-" ELSE CharAt(t, 1))
                \o replaceColonDot(SubSeq(t, 2, Len(t)))
        ) : t \in {t0}} : TRUE

\* a file name that keeps the instant as toISOString() printed it
buildGeneratedFileNameOfRawInstant(iso, randomId) ==
    "generated-" \o iso \o "-" \o randomId \o ".jpg"

\* part_000:37-41, for the instant and the suffix drawn
buildGeneratedFileName(iso, randomId) ==
    "generated-" \o replaceColonDot(iso) \o "-" \o randomId \o ".jpg"

GeneratedFileNames == {buildGeneratedFileName(t, r) : t \in IsoInstants, r \in RandomIds}

\* part_000:43-53
expandUserPath(inputPath) ==
    IF inputPath = "~" THEN HomeDir
    ELSE IF startsWith(inputPath, "~/") \/ startsWith(inputPath, "~\\")
    THEN join(HomeDir, SubSeq(inputPath, 3, Len(inputPath)))
    ELSE inputPath

\* part_000:55-58
normalizePathInput(inputPath) ==
    CHOOSE result \in
        {IF isAbsolute(expanded) THEN expanded ELSE resolve(expanded) :
            expanded \in {expandUserPath(inputPath)}} : TRUE

\* Array.from(new Set(candidates)): the first occurrence of each entry, in order
RECURSIVE Dedup(_)
Dedup(q0) ==
    CHOOSE result \in {(
        IF Len(q) = 0 THEN <<>>
        ELSE LET rest == Dedup(SubSeq(q, 1, Len(q) - 1))
                 x == q[Len(q)]
             IN  IF \E i \in 1..Len(rest) : rest[i] = x THEN rest ELSE Append(rest, x)
        ) : q \in {q0}} : TRUE

\* part_000:60-70
getDefaultOutputDirectories(e) ==
    LET configured ==
            IF IsSome(e.IMAGE_OUTPUT_DIR) THEN Some(trim(Get(e.IMAGE_OUTPUT_DIR))) ELSE None
        candidates ==
            (IF Truthy(configured) THEN <<normalizePathInput(Get(configured))>> ELSE <<>>)
            \o <<join(HomeDir, "nano-banana-images"), join(TmpDir, "nano-banana-images")>>
    IN  Dedup(candidates)

ExtensionMessage(ext) ==
    "save_path must use a .jpg or .jpeg extension because this tool outputs JPEG data, got: "
        \o ext

\* part_000:73: the path resolveOutputFilePath works on
TargetPath(sp, defaultDir, e) ==
    IF Truthy(sp) THEN normalizePathInput(Get(sp))
    ELSE IF IsSome(defaultDir) THEN Get(defaultDir)
    ELSE getDefaultOutputDirectories(e)[1]

\* a resolver that compares the extension without lower-casing it
ResolvePlanCaseSensitive(targetPath) ==
    CHOOSE result \in
        {IF ext = "" THEN [mode |-> "dir", mkdir |-> targetPath, message |-> ""]
         ELSE IF ext \notin JPEG_EXTENSIONS
         THEN [mode |-> "reject", mkdir |-> "", message |-> ExtensionMessage(ext)]
         ELSE [mode |-> "file", mkdir |-> dirname(targetPath), message |-> ""] :
            ext \in {extname(targetPath)}} : TRUE

\* part_000:72-90 without its mkdir calls: what the function does with the
\* target.  mode "dir": mkdir(path) and join a generated name; mode "file":
\* mkdir(dirname(path)) and return path; mode "reject": throw message.
ResolvePlan(targetPath) ==
    CHOOSE result \in
        {IF ext = "" THEN [mode |-> "dir", mkdir |-> targetPath, message |-> ""]
         ELSE IF toLowerCase(ext) \notin JPEG_EXTENSIONS
         THEN [mode |-> "reject", mkdir |-> "", message |-> ExtensionMessage(ext)]
         ELSE [mode |-> "file", mkdir |-> dirname(targetPath), message |-> ""] :
            ext \in {extname(targetPath)}} : TRUE

(***************************************************************************)
(* The filesystem.  A directory of the set usable never fails an operation;*)
(* in any other directory mkdir or writeFile or stat fails, or writeFile    *)
(* leaves an empty file: no attempt to store a file there succeeds.         *)
(***************************************************************************)
FsOp(op, path, ok) == [op |-> op, path |-> path, ok |-> ok]
MkdirError(path) == JsError("EACCES: permission denied, mkdir '" \o path \o "'")
WriteError(path) == JsError("EACCES: permission denied, open '" \o path \o "'")
StatError(path) == JsError("ENOENT: no such file or directory, stat '" \o path \o "'")
EmptyFileMessage(path) == "File was written but is empty: " \o path
EmptyDataMessage == "Image data is empty, nothing to save."

FileSize(path) == IF path \in DOMAIN files THEN Len(files[path]) ELSE 0

\* the file writeFile(path, bytes) leaves
Written(path, bytes) == [q \in (DOMAIN files) \cup {path} |-> IF q = path THEN bytes ELSE files[q]]

Place(p) == stripTrailingSlashes(p)

\* mkdir(path, {recursive: true}) succeeds
MkdirOk(path) ==
    /\ dirs' = dirs \cup {Place(path)}
    /\ fsLog' = Append(fsLog, FsOp("mkdir", path, TRUE))
    /\ UNCHANGED <<files, usable>>

\* mkdir(path, {recursive: true}) throws
MkdirFails(path) ==
    /\ Place(path) \notin usable
    /\ fsLog' = Append(fsLog, FsOp("mkdir", path, FALSE))
    /\ UNCHANGED <<dirs, files, usable>>

\* writeFile(path, bytes) stores the bytes
WriteOk(path, bytes) ==
    /\ files' = Written(path, bytes)
    /\ fsLog' = Append(fsLog, FsOp("writeFile", path, TRUE))
    /\ UNCHANGED <<dirs, usable>>

\* writeFile(path, bytes) returns, and the file is empty
WriteTruncates(path) ==
    /\ dirname(path) \notin usable
    /\ files' = Written(path, <<>>)
    /\ fsLog' = Append(fsLog, FsOp("writeFile", path, TRUE))
    /\ UNCHANGED <<dirs, usable>>

\* writeFile(path, bytes) throws
WriteFails(path) ==
    /\ dirname(path) \notin usable
    /\ fsLog' = Append(fsLog, FsOp("writeFile", path, FALSE))
    /\ UNCHANGED <<dirs, files, usable>>

\* stat(path) returns the size of the file
StatOk(path) ==
    /\ dirname(path) \in usable \/ FileSize(path) = 0
    /\ fsLog' = Append(fsLog, FsOp("stat", path, TRUE))
    /\ UNCHANGED <<dirs, files, usable>>

\* stat(path) throws
StatFails(path) ==
    /\ dirname(path) \notin usable
    /\ fsLog' = Append(fsLog, FsOp("stat", path, FALSE))
    /\ UNCHANGED <<dirs, files, usable>>

(***************************************************************************)
(* tools.ts (part_000): saveImage, lines 97-171                             *)
(***************************************************************************)
RequestedLabel(sp) == "requested save_path '" \o sp \o "'"
FallbackLabel(dir) == "fallback directory '" \o dir \o "'"
DefaultLabel(dir) == "default directory '" \o dir \o "'"

\* part_000:113-116
fallbackLabels(sp, defaultDirectories) ==
    IF Truthy(sp) /\ Len(defaultDirectories) > 0
    THEN [i \in 1..Len(defaultDirectories) |-> FallbackLabel(defaultDirectories[i])]
    ELSE <<DefaultLabel(defaultDirectories[1])>>

\* part_000:104-123: the attempt list
BuildAttempts(sp, defaultDirectories) ==
    LET labels == fallbackLabels(sp, defaultDirectories)
    IN  (IF Truthy(sp)
         THEN <<[savePath |-> sp, defaultDir |-> None, label |-> RequestedLabel(Get(sp))]>>
         ELSE <<>>)
        \o [i \in 1..Len(defaultDirectories) |->
                [savePath |-> None,
                 defaultDir |-> Some(defaultDirectories[i]),
                 label |-> IF i <= Len(labels) THEN labels[i]
                           ELSE FallbackLabel(defaultDirectories[i])]]

Attempted(idx, path, outcome, message) ==
    [idx |-> idx, path |-> path, outcome |-> outcome, message |-> message]

\* part_000:97-126: the empty check and the attempt list
SaveImageCall ==
    /\ spc = "idle"
    /\ buffer' = BufferFromBase64(data)
    /\ IF Len(buffer') = 0
       THEN /\ saveThrown' = Some(JsError(EmptyDataMessage))
            /\ spc' = "thrown"
            /\ UNCHANGED <<attempts, attemptIdx>>
       ELSE /\ attempts' = BuildAttempts(savePath, getDefaultOutputDirectories(env))
            /\ attemptIdx' = 1
            /\ spc' = "resolve"
            /\ UNCHANGED saveThrown
    /\ UNCHANGED <<data, savePath, filePath, saveError, firstFailureMessage, lastError,
                   saveResult, saveLog>>
    /\ UNCHANGED <<handlerVars, fsVars, genVars, cacheVars, env>>

\* part_000:130 and 72-90: resolveOutputFilePath for the current attempt
SaveResolve ==
    /\ spc = "resolve"
    /\ \E targetPath \in {TargetPath(attempts[attemptIdx].savePath,
                                     attempts[attemptIdx].defaultDir, env)} :
       \E plan \in {ResolvePlan(targetPath)} :
           \/ /\ plan.mode = "reject"
              /\ saveError' = Some(JsError(plan.message))
              /\ spc' = "catch"
              /\ UNCHANGED <<filePath, fsVars>>
           \/ /\ plan.mode # "reject"
              /\ MkdirFails(plan.mkdir)
              /\ saveError' = Some(MkdirError(plan.mkdir))
              /\ spc' = "catch"
              /\ UNCHANGED filePath
           \/ /\ plan.mode = "dir"
              /\ MkdirOk(plan.mkdir)
              /\ \E name \in GeneratedFileNames : filePath' = Some(join(targetPath, name))
              /\ spc' = "write"
              /\ UNCHANGED saveError
           \/ /\ plan.mode = "file"
              /\ MkdirOk(plan.mkdir)
              /\ filePath' = Some(targetPath)
              /\ spc' = "write"
              /\ UNCHANGED saveError
    /\ UNCHANGED <<data, savePath, buffer, attempts, attemptIdx, firstFailureMessage,
                   lastError, saveResult, saveThrown, saveLog>>
    /\ UNCHANGED <<handlerVars, genVars, cacheVars, env>>

\* part_000:131
SaveWrite ==
    /\ spc = "write"
    /\ \/ /\ WriteOk(Get(filePath), buffer)
          /\ spc' = "stat"
          /\ UNCHANGED saveError
       \/ /\ WriteTruncates(Get(filePath))
          /\ spc' = "stat"
          /\ UNCHANGED saveError
       \/ /\ WriteFails(Get(filePath))
          /\ saveError' = Some(WriteError(Get(filePath)))
          /\ spc' = "catch"
    /\ UNCHANGED <<data, savePath, buffer, attempts, attemptIdx, filePath,
                   firstFailureMessage, lastError, saveResult, saveThrown, saveLog>>
    /\ UNCHANGED <<handlerVars, genVars, cacheVars, env>>

\* part_000:142-146
FallbackWarning(sp, first) ==
    "Requested save_path '" \o sp \o "' failed (" \o first
        \o "). Saved to fallback path instead."

\* a saveImage that reports the fallback whenever a target was requested,
\* without looking at which attempt succeeded
SaveOutcomeWarnsOnTarget(a, sp, first, path) ==
    IF Truthy(sp)
    THEN [filePath |-> path,
          warning |-> Some(FallbackWarning(Get(sp), IF Truthy(first) THEN Get(first) ELSE ""))]
    ELSE [filePath |-> path, warning |-> None]

\* part_000:138-149: the value returned by the attempt that succeeded
SaveOutcome(a, sp, first, path) ==
    IF Truthy(a.savePath) THEN [filePath |-> path, warning |-> None]
    ELSE IF Truthy(sp) /\ Truthy(first)
    THEN [filePath |-> path, warning |-> Some(FallbackWarning(Get(sp), Get(first)))]
    ELSE [filePath |-> path, warning |-> None]

\* part_000:133-149
SaveStat ==
    /\ spc = "stat"
    /\ \/ /\ StatFails(Get(filePath))
          /\ saveError' = Some(StatError(Get(filePath)))
          /\ spc' = "catch"
          /\ UNCHANGED <<saveResult, saveLog>>
       \/ /\ StatOk(Get(filePath))
          /\ IF FileSize(Get(filePath)) = 0
             THEN /\ saveError' = Some(JsError(EmptyFileMessage(Get(filePath))))
                  /\ spc' = "catch"
                  /\ UNCHANGED <<saveResult, saveLog>>
             ELSE /\ saveResult' = Some(SaveOutcome(attempts[attemptIdx], savePath,
                                                    firstFailureMessage, Get(filePath)))
                  /\ saveLog' = Append(saveLog, Attempted(attemptIdx, Get(filePath), "ok", ""))
                  /\ spc' = "returned"
                  /\ UNCHANGED saveError
    /\ UNCHANGED <<data, savePath, buffer, attempts, attemptIdx, filePath,
                   firstFailureMessage, lastError, saveThrown>>
    /\ UNCHANGED <<handlerVars, genVars, cacheVars, env>>

ExtensionMarker == "must use a .jpg or .jpeg extension"

\* a catch block that treats the extension error as any other failure
IsFatalNever(a, e) == FALSE

\* part_000:151-155
IsFatal(a, e) ==
    Truthy(a.savePath) /\ IsErrorInstance(e) /\ includes(Get(e.message), ExtensionMarker)

\* a final error that repeats the first failure in place of the last
ExhaustedErrorOfFirstOnly(first, last) ==
    JsError("Failed to save generated image. "
                \o (IF Truthy(first) THEN Get(first) ELSE "Unknown filesystem save error.")
                \o ".")

\* part_000:167-170
ExhaustedError(first, last) ==
    JsError("Failed to save generated image. "
                \o (IF IsErrorInstance(last) THEN Get(last.message)
                    ELSE "Unknown filesystem save error.")
                \o "."
                \o (IF Truthy(first) THEN " First failure: " \o Get(first) ELSE ""))

\* part_000:150-164, the next iteration of the loop or lines 167-170 after it
SaveCatch ==
    /\ spc = "catch"
    /\ LET a == attempts[attemptIdx]
           e == Get(saveError)
           first == IF ~Truthy(firstFailureMessage)
                    THEN Some(a.label \o ": " \o Get(e.message))
                    ELSE firstFailureMessage
           target == TargetPath(a.savePath, a.defaultDir, env)
       IN  IF IsFatal(a, e)
           THEN /\ saveThrown' = Some(e)
                /\ saveLog' = Append(saveLog, Attempted(attemptIdx, target, "fatal", Get(e.message)))
                /\ spc' = "thrown"
                /\ UNCHANGED <<firstFailureMessage, lastError, attemptIdx>>
           ELSE /\ firstFailureMessage' = first
                /\ lastError' = Some(e)
                /\ saveLog' = Append(saveLog, Attempted(attemptIdx, target, "failed", Get(e.message)))
                /\ IF attemptIdx < Len(attempts)
                   THEN /\ attemptIdx' = attemptIdx + 1
                        /\ spc' = "resolve"
                        /\ UNCHANGED saveThrown
                   ELSE /\ saveThrown' = Some(ExhaustedError(first, e))
                        /\ spc' = "thrown"
                        /\ UNCHANGED attemptIdx
    /\ filePath' = None
    /\ saveError' = None
    /\ UNCHANGED <<data, savePath, buffer, attempts, saveResult>>
    /\ UNCHANGED <<handlerVars, fsVars, genVars, cacheVars, env>>

(***************************************************************************)
(* tools.ts of the absolute-path-only variant (part_001): saveImage,        *)
(* lines 65-81, and its resolveOutputFilePath, lines 43-63                  *)
(***************************************************************************)
AbsoluteMessage(sp) == "save_path must be an absolute path, got: " \o sp

\* part_001:43-63 without its mkdir calls
StrictResolvePlan(sp) ==
    IF ~isAbsolute(sp)
    THEN [mode |-> "reject", mkdir |-> "", message |-> AbsoluteMessage(sp)]
    ELSE ResolvePlan(sp)

\* part_001:65-71: resolveOutputFilePath first, then the empty check
StrictSaveImageCall ==
    /\ spc = "idle"
    /\ IsSome(savePath)
    /\ \E plan \in {StrictResolvePlan(Get(savePath))} :
           \/ /\ plan.mode = "reject"
              /\ saveThrown' = Some(JsError(plan.message))
              /\ spc' = "thrown"
              /\ UNCHANGED <<buffer, filePath, fsVars>>
           \/ /\ plan.mode # "reject"
              /\ MkdirFails(plan.mkdir)
              /\ saveThrown' = Some(MkdirError(plan.mkdir))
              /\ spc' = "thrown"
              /\ UNCHANGED <<buffer, filePath>>
           \/ /\ plan.mode # "reject"
              /\ MkdirOk(plan.mkdir)
              /\ buffer' = BufferFromBase64(data)
              /\ \E name \in GeneratedFileNames :
                    filePath' = IF plan.mode = "dir" THEN Some(join(Get(savePath), name))
                                ELSE savePath
              /\ IF Len(buffer') = 0
                 THEN /\ saveThrown' = Some(JsError(EmptyDataMessage))
                      /\ spc' = "thrown"
                 ELSE /\ spc' = "strictWrite"
                      /\ UNCHANGED saveThrown
    /\ UNCHANGED <<data, savePath, attempts, attemptIdx, saveError, firstFailureMessage,
                   lastError, saveResult, saveLog>>
    /\ UNCHANGED <<handlerVars, genVars, cacheVars, env>>

\* part_001:73
StrictWrite ==
    /\ spc = "strictWrite"
    /\ \/ /\ WriteOk(Get(filePath), buffer)
          /\ spc' = "strictStat"
          /\ UNCHANGED saveThrown
       \/ /\ WriteTruncates(Get(filePath))
          /\ spc' = "strictStat"
          /\ UNCHANGED saveThrown
       \/ /\ WriteFails(Get(filePath))
          /\ saveThrown' = Some(WriteError(Get(filePath)))
          /\ spc' = "thrown"
    /\ UNCHANGED <<data, savePath, buffer, attempts, attemptIdx, filePath, saveError,
                   firstFailureMessage, lastError, saveResult, saveLog>>
    /\ UNCHANGED <<handlerVars, genVars, cacheVars, env>>

\* part_001:75-80
StrictStat ==
    /\ spc = "strictStat"
    /\ \/ /\ StatFails(Get(filePath))
          /\ saveThrown' = Some(StatError(Get(filePath)))
          /\ spc' = "thrown"
          /\ UNCHANGED saveResult
       \/ /\ StatOk(Get(filePath))
          /\ IF FileSize(Get(filePath)) = 0
             THEN /\ saveThrown' = Some(JsError(EmptyFileMessage(Get(filePath))))
                  /\ spc' = "thrown"
                  /\ UNCHANGED saveResult
             ELSE /\ saveResult' = Some([filePath |-> Get(filePath), warning |-> None])
                  /\ spc' = "returned"
                  /\ UNCHANGED saveThrown
    /\ UNCHANGED <<data, savePath, buffer, attempts, attemptIdx, filePath, saveError,
                   firstFailureMessage, lastError, saveLog>>
    /\ UNCHANGED <<handlerVars, genVars, cacheVars, env>>

(***************************************************************************)
(* tools.ts (part_000): generateImageTool.handler, lines 187-232.  savePath *)
(* holds args.save_path from the start; the prompt does not influence the   *)
(* control flow and is left out.                                            *)
(***************************************************************************)
\* Array.prototype.join("\n\n") of part_000:210
RECURSIVE JoinLines(_)
JoinLines(lines0) ==
    CHOOSE result \in {(
        IF Len(lines) = 0 THEN ""
        ELSE IF Len(lines) = 1 THEN lines[1]
        ELSE lines[1] \o "\n\n" \o JoinLines(Tail(lines))
        ) : lines \in {lines0}} : TRUE

SavedLine(path) == "Image saved to: " \o path
ModelLine(m) == "Model: " \o m

\* part_000:199-204
StatusLines(result, saved) ==
    (IF Truthy(result.text) THEN <<Get(result.text)>> ELSE <<>>)
    \o (IF Truthy(saved.warning) THEN <<Get(saved.warning)>> ELSE <<>>)
    \o <<SavedLine(saved.filePath), ModelLine(result.model)>>

\* a record that reports the path the caller asked for
StructuredContentOfRequest(result, saved) ==
    [file_path |-> IF Truthy(savePath) THEN normalizePathInput(Get(savePath))
                   ELSE saved.filePath,
     mime_type |-> result.mimeType,
     model |-> result.model,
     text |-> IF Truthy(result.text) THEN result.text ELSE None]

\* part_000:192-197
StructuredContent(result, saved) ==
    [file_path |-> saved.filePath,
     mime_type |-> result.mimeType,
     model |-> result.model,
     text |-> IF Truthy(result.text) THEN result.text ELSE None]

\* part_000:206-219: the response of a success; isError is absent
SuccessResponse(result, saved) ==
    [content |-> <<[type |-> "text", text |-> JoinLines(StatusLines(result, saved))],
                   [type |-> "image", data |-> result.data, mimeType |-> result.mimeType]>>,
     structuredContent |-> Some(StructuredContent(result, saved)),
     isError |-> None]

\* part_000:221
CaughtMessage(e) == IF IsErrorInstance(e) THEN Get(e.message) ELSE "Unknown error"

\* an error response that still carries a structured record
ErrorResponseWithRecord(e) ==
    [content |-> <<[type |-> "text", text |-> "Error generating image: " \o CaughtMessage(e)]>>,
     structuredContent |-> Some([file_path |-> "", mime_type |-> "image/jpeg",
                                 model |-> "", text |-> None]),
     isError |-> Some(TRUE)]

\* part_000:220-230: the response of a failure; no structuredContent
ErrorResponse(e) ==
    [content |-> <<[type |-> "text", text |-> "Error generating image: " \o CaughtMessage(e)]>>,
     structuredContent |-> None,
     isError |-> Some(TRUE)]

\* part_000:187-189: the handler is invoked and calls generateImage(args.prompt)
HandlerCall ==
    /\ hpc = "idle"
    /\ hpc' = "generate"
    /\ UNCHANGED <<hResponse, hThrown, inv>>
    /\ UNCHANGED <<env, cacheVars, genVars, saveVars, fsVars>>

\* a handler that swallows the failure of generateImage and goes on to save
\* a placeholder image
HandlerGeneratedOrFailed ==
    /\ hpc = "generate"
    /\ gpc \in {"returned", "thrown"}
    /\ data' = IF gpc = "returned" THEN Get(genResult).data ELSE "QUJD"
    /\ hpc' = "save"
    /\ UNCHANGED <<hResponse, hThrown, inv>>
    /\ UNCHANGED <<spc, savePath, buffer, attempts, attemptIdx, filePath, saveError,
                   firstFailureMessage, lastError, saveResult, saveThrown, saveLog>>
    /\ UNCHANGED <<env, cacheVars, genVars, fsVars>>

\* part_000:189-190: generateImage resolved; saveImage(result.data, args.save_path)
HandlerGenerated ==
    /\ hpc = "generate"
    /\ gpc = "returned"
    /\ data' = Get(genResult).data
    /\ hpc' = "save"
    /\ UNCHANGED <<hResponse, hThrown, inv>>
    /\ UNCHANGED <<spc, savePath, buffer, attempts, attemptIdx, filePath, saveError,
                   firstFailureMessage, lastError, saveResult, saveThrown, saveLog>>
    /\ UNCHANGED <<env, cacheVars, genVars, fsVars>>

\* part_000:190-219: saveImage resolved; the success response is returned
HandlerRespond ==
    /\ hpc = "save"
    /\ spc = "returned"
    /\ hResponse' = Append(hResponse, SuccessResponse(Get(genResult), Get(saveResult)))
    /\ hpc' = "done"
    /\ UNCHANGED <<hThrown, inv>>
    /\ UNCHANGED <<env, cacheVars, genVars, saveVars, fsVars>>

\* a handler whose try block ends before the call of saveImage
HandlerCatchOfGenerationOnly ==
    /\ hpc = "generate" /\ gpc = "thrown"
    /\ hResponse' = Append(hResponse, ErrorResponse(Get(genThrown)))
    /\ hpc' = "done"
    /\ UNCHANGED <<hThrown, inv>>
    /\ UNCHANGED <<env, cacheVars, genVars, saveVars, fsVars>>

\* part_000:220-230: generateImage or saveImage rejected; the catch answers
HandlerCatch ==
    /\ \/ hpc = "generate" /\ gpc = "thrown"
       \/ hpc = "save" /\ spc = "thrown"
    /\ LET e == IF hpc = "generate" THEN Get(genThrown) ELSE Get(saveThrown)
       IN  hResponse' = Append(hResponse, ErrorResponse(e))
    /\ hpc' = "done"
    /\ UNCHANGED <<hThrown, inv>>
    /\ UNCHANGED <<env, cacheVars, genVars, saveVars, fsVars>>

\* the generateImage and saveImage invocations start where the handler calls them
HandlerEntersGenerateImage == hpc = "generate" /\ CallGenerateImage
HandlerEntersSaveImage == hpc = "save" /\ SaveImageCall

(***************************************************************************)
(* Two invocations of saveImage (part_000) that run concurrently with the   *)
(* same explicit file path, on a filesystem where every operation succeeds. *)
(* Each invocation is followed through its first attempt, the caller's      *)
(* target.  fs/promises writeFile(path, buffer) is not one step: it opens   *)
(* the file with flag 'w', which creates or truncates it, then writes the   *)
(* buffer from offset 0 and closes; the steps of the two invocations        *)
(* interleave at every await.                                               *)
(***************************************************************************)
Invocations == {1, 2}

\* the bytes of a file after buffer was written at offset 0 over old
Overwritten(old, bytes) ==
    IF Len(old) > Len(bytes) THEN bytes \o SubSeq(old, Len(bytes) + 1, Len(old)) ELSE bytes

\* part_000:97-126: the empty check; the first attempt is the caller's target
ConcSaveImageCall(i) ==
    /\ inv[i].pc = "idle"
    /\ inv' = [inv EXCEPT ![i].buffer = BufferFromBase64(inv[i].data),
                          ![i].pc = IF Len(BufferFromBase64(inv[i].data)) = 0
                                    THEN "thrown" ELSE "resolve"]
    /\ UNCHANGED <<dirs, files, usable, fsLog>>

\* part_000:130 and 72-90: resolveOutputFilePath(savePath): mkdir of the parent
ConcResolve(i) ==
    /\ inv[i].pc = "resolve"
    /\ \E targetPath \in {normalizePathInput(Get(savePath))} :
       \E plan \in {ResolvePlan(targetPath)} :
          /\ plan.mode = "file"
          /\ MkdirOk(plan.mkdir)
          /\ inv' = [inv EXCEPT ![i].filePath = Some(targetPath), ![i].pc = "open"]

\* part_000:131, writeFile: open(filePath, 'w') creates or truncates the file
ConcOpen(i) ==
    /\ inv[i].pc = "open"
    /\ files' = Written(Get(inv[i].filePath), <<>>)
    /\ fsLog' = Append(fsLog, FsOp("open", Get(inv[i].filePath), TRUE))
    /\ inv' = [inv EXCEPT ![i].pc = "write"]
    /\ UNCHANGED <<dirs, usable>>

\* part_000:131, writeFile: the buffer is written from offset 0, the file closed
ConcWrite(i) ==
    /\ inv[i].pc = "write"
    /\ files' = Written(Get(inv[i].filePath),
                        Overwritten(files[Get(inv[i].filePath)], inv[i].buffer))
    /\ fsLog' = Append(fsLog, FsOp("writeFile", Get(inv[i].filePath), TRUE))
    /\ inv' = [inv EXCEPT ![i].pc = "stat", ![i].wroteAt = Len(fsLog) + 1]
    /\ UNCHANGED <<dirs, usable>>

\* part_000:133-140: stat, the zero-size check, the return of the caller's
\* own attempt; line 135 throws into the catch of 150, which goes on to the
\* default directories
ConcStat(i) ==
    /\ inv[i].pc = "stat"
    /\ fsLog' = Append(fsLog, FsOp("stat", Get(inv[i].filePath), TRUE))
    /\ IF FileSize(Get(inv[i].filePath)) = 0
       THEN inv' = [inv EXCEPT ![i].pc = "failed",
                               ![i].error =
                                   Some(JsError(EmptyFileMessage(Get(inv[i].filePath))))]
       ELSE inv' = [inv EXCEPT ![i].pc = "returned",
                               ![i].result =
                                   Some(SaveOutcome([savePath |-> savePath], savePath, None,
                                                    Get(inv[i].filePath)))]
    /\ UNCHANGED <<dirs, files, usable>>

(***************************************************************************)
(* The configurations and arguments the operations are started with         *)
(***************************************************************************)
ApiKeySamples == {None, Some(""), Some("key-1"), Some("key-2")}
ModelSamples == {None, Some("   "), Some(" my-model ")}

GenEnvs ==
    {[GEMINI_API_KEY |-> a, GOOGLE_API_KEY |-> b, GEMINI_IMAGE_MODEL |-> m,
      IMAGE_OUTPUT_DIR |-> None] :
        a \in ApiKeySamples, b \in ApiKeySamples, m \in ModelSamples}

OutputDirSamples ==
    {None, Some("   "), Some(" /data/images "), Some("/data/out.jpg"),
     Some("/data/my.images"), Some("~/nano-banana-images")}

SaveEnvs ==
    {[GEMINI_API_KEY |-> None, GOOGLE_API_KEY |-> None, GEMINI_IMAGE_MODEL |-> None,
      IMAGE_OUTPUT_DIR |-> d] : d \in OutputDirSamples}

SavePathSamples ==
    {None, Some("/out/pic.jpg"), Some("/out/photo.png"), Some("/out/album"),
     Some("~/pics/a.JPEG"), Some("shots")}

DataSamples == {"", "====", "QUJD"}

Range(q) == {q[i] : i \in 1..Len(q)}

\* the directory the caller's target asks to store the file in
TargetPlace(sp) ==
    LET plan == ResolvePlan(normalizePathInput(sp))
    IN  IF plan.mode = "reject" THEN {} ELSE {Place(plan.mkdir)}

\* the directories an invocation can be concerned with: the caller's, each
\* default directory, and the parent of a default directory
Places(sp, e) ==
    (IF IsSome(sp) THEN TargetPlace(Get(sp)) ELSE {})
    \cup Range(getDefaultOutputDirectories(e))
    \cup {dirname(d) : d \in {x \in Range(getDefaultOutputDirectories(e)) : extname(x) # ""}}

GenIdle ==
    /\ gpc = "idle"
    /\ attempt = 0
    /\ client = None
    /\ model = ""
    /\ response = None
    /\ error = None
    /\ backoffMs = 0
    /\ genResult = None
    /\ genThrown = None
    /\ genLog = <<>>

SaveIdle ==
    /\ spc = "idle"
    /\ buffer = <<>>
    /\ attempts = <<>>
    /\ attemptIdx = 0
    /\ filePath = None
    /\ saveError = None
    /\ firstFailureMessage = None
    /\ lastError = None
    /\ saveResult = None
    /\ saveThrown = None
    /\ saveLog = <<>>

FsEmpty ==
    /\ dirs = {}
    /\ files = <<>>
    /\ fsLog = <<>>

CacheEmpty ==
    /\ cachedClient = None
    /\ cachedApiKey = None
    /\ clientsMade = 0

HandlerIdle ==
    /\ hpc = "idle"
    /\ hResponse = <<>>
    /\ hThrown = None
    /\ inv = <<>>

vars == <<env, cacheVars, genVars, saveVars, fsVars, handlerVars>>

\* generateImage alone
InitGen ==
    /\ env \in GenEnvs
    /\ CacheEmpty
    /\ GenIdle
    /\ SaveIdle
    /\ HandlerIdle
    /\ data = ""
    /\ savePath = None
    /\ FsEmpty
    /\ usable = {}

NextGen ==
    \/ CallGenerateImage
    \/ GenRequest
    \/ GenRespond
    \/ GenReject
    \/ GenParse
    \/ GenCatch
    \/ GenWake

SpecGen == InitGen /\ [][NextGen]_vars

\* getClient called again and again while the credential changes
InitClient ==
    /\ env \in GenEnvs
    /\ env.GEMINI_IMAGE_MODEL = None
    /\ env.GEMINI_API_KEY = None
    /\ env.GOOGLE_API_KEY \in {None, Some("key-2")}
    /\ CacheEmpty
    /\ GenIdle
    /\ SaveIdle
    /\ HandlerIdle
    /\ data = ""
    /\ savePath = None
    /\ FsEmpty
    /\ usable = {}

NextClient ==
    \/ SetCredential
    \/ GetClientCall

SpecClient == InitClient /\ [][NextClient]_vars

\* saveImage of part_000 alone
InitSave ==
    /\ env \in SaveEnvs
    /\ CacheEmpty
    /\ GenIdle
    /\ SaveIdle
    /\ HandlerIdle
    /\ data \in DataSamples
    /\ savePath \in SavePathSamples
    /\ FsEmpty
    /\ usable \in SUBSET Places(savePath, env)

NextSave ==
    \/ SaveImageCall
    \/ SaveResolve
    \/ SaveWrite
    \/ SaveStat
    \/ SaveCatch

SpecSave == InitSave /\ [][NextSave]_vars

StrictSavePathSamples ==
    {Some("/out/pic.jpg"), Some("/out/photo.png"), Some("/out/album"),
     Some("/srv/IMG.JPEG"), Some("/srv/img"), Some("shots"), Some("~/pics/a.jpg")}

\* the directory part_001's saveImage stores the file in
StrictPlaces(sp) ==
    LET plan == StrictResolvePlan(sp)
    IN  IF plan.mode = "reject" THEN {} ELSE {Place(plan.mkdir)}

\* saveImage of part_001 alone
InitStrictSave ==
    /\ env \in SaveEnvs
    /\ env.IMAGE_OUTPUT_DIR = None
    /\ CacheEmpty
    /\ GenIdle
    /\ SaveIdle
    /\ HandlerIdle
    /\ data \in DataSamples
    /\ savePath \in StrictSavePathSamples
    /\ FsEmpty
    /\ usable \in SUBSET StrictPlaces(Get(savePath))

NextStrictSave ==
    \/ StrictSaveImageCall
    \/ StrictWrite
    \/ StrictStat

SpecStrictSave == InitStrictSave /\ [][NextStrictSave]_vars

\* resolveOutputFilePath of both variants, each called by its saveImage
InitResolvers == InitSave \/ InitStrictSave

NextResolvers ==
    \/ NextSave
    \/ NextStrictSave

SpecResolvers == InitResolvers /\ [][NextResolvers]_vars

\* what the backend answers in the runs of the whole handler
HandlerResponses ==
    {[parts |-> None],
     [parts |-> Some(<<TextPart("request timed out, temporary"), ImagePart("QUJD")>>)]}
HandlerFailures ==
    {ApiError(503, "Service Temporarily Overloaded"), ApiError(400, "bad request")}

HandlerEnvs ==
    {[GEMINI_API_KEY |-> k, GOOGLE_API_KEY |-> None, GEMINI_IMAGE_MODEL |-> None,
      IMAGE_OUTPUT_DIR |-> d] :
        k \in {None, Some("key-1")}, d \in {None, Some("/data/out.jpg")}}
HandlerSavePathSamples == {None, Some("/out/pic.jpg"), Some("/out/photo.png")}

\* one invocation of the generate_image handler of part_000
InitHandler ==
    /\ env \in HandlerEnvs
    /\ CacheEmpty
    /\ GenIdle
    /\ SaveIdle
    /\ HandlerIdle
    /\ data = ""
    /\ savePath \in HandlerSavePathSamples
    /\ FsEmpty
    /\ usable \in SUBSET (Places(savePath, env) \ {join(TmpDir, "nano-banana-images")})

NextHandler ==
    \/ HandlerCall
    \/ HandlerEntersGenerateImage
    \/ GenRequest
    \/ GenRespond /\ Get(response') \in HandlerResponses
    \/ GenReject /\ Get(error') \in HandlerFailures
    \/ GenParse
    \/ GenCatch
    \/ GenWake
    \/ HandlerGenerated
    \/ HandlerEntersSaveImage
    \/ SaveResolve
    \/ SaveWrite
    \/ SaveStat
    \/ SaveCatch
    \/ HandlerRespond
    \/ HandlerCatch

SpecHandler == InitHandler /\ [][NextHandler]_vars

\* the configurations the environment can be changed to while the handler runs
ReconfigEnvs ==
    {[GEMINI_API_KEY |-> Some("key-2"), GOOGLE_API_KEY |-> None,
      GEMINI_IMAGE_MODEL |-> Some(" my-model "), IMAGE_OUTPUT_DIR |-> Some(" /data/images ")],
     [GEMINI_API_KEY |-> None, GOOGLE_API_KEY |-> None,
      GEMINI_IMAGE_MODEL |-> Some("other-model"), IMAGE_OUTPUT_DIR |-> None]}

\* process.env is changed by other code while the invocation waits at an await:
\* the backend call or the backoff sleep of generateImage (gemini.ts:96, 142),
\* or resolve, writeFile or stat of saveImage (part_000:130-133)
Reconfigure ==
    /\ \/ hpc = "generate" /\ gpc \in {"await", "sleep"}
       \/ hpc = "save" /\ spc \in {"resolve", "write", "stat"}
    /\ env' \in ReconfigEnvs
    /\ env' # env
    /\ UNCHANGED <<cacheVars, genVars, saveVars, fsVars, handlerVars>>

\* one invocation of the handler while the configuration changes
NextHandlerReconfig ==
    \/ NextHandler
    \/ Reconfigure

SpecHandlerReconfig == InitHandler /\ [][NextHandlerReconfig]_vars

ConcSavePathSamples == {Some("/out/pic.jpg"), Some("~/pics/a.JPEG")}
ConcDataSamples == {"QUJD", "QQ==", "QUI="}

\* two concurrent invocations of saveImage with one explicit file path
InitConcurrent ==
    /\ env \in SaveEnvs
    /\ env.IMAGE_OUTPUT_DIR = None
    /\ CacheEmpty
    /\ GenIdle
    /\ SaveIdle
    /\ hpc = "idle"
    /\ hResponse = <<>>
    /\ hThrown = None
    /\ data = ""
    /\ savePath \in ConcSavePathSamples
    /\ FsEmpty
    /\ usable = Places(savePath, env)
    /\ \E d \in [Invocations -> ConcDataSamples] :
          inv = [i \in Invocations |->
                    [pc |-> "idle", data |-> d[i], buffer |-> <<>>, filePath |-> None,
                     wroteAt |-> 0, result |-> None, error |-> None]]

NextConcurrent ==
    \/ \E i \in Invocations : ConcSaveImageCall(i) /\ UNCHANGED <<hpc, hResponse, hThrown, env, cacheVars, genVars, saveVars>>
    \/ \E i \in Invocations : ConcResolve(i) /\ UNCHANGED <<hpc, hResponse, hThrown, env, cacheVars, genVars, saveVars>>
    \/ \E i \in Invocations : ConcOpen(i) /\ UNCHANGED <<hpc, hResponse, hThrown, env, cacheVars, genVars, saveVars>>
    \/ \E i \in Invocations : ConcWrite(i) /\ UNCHANGED <<hpc, hResponse, hThrown, env, cacheVars, genVars, saveVars>>
    \/ \E i \in Invocations : ConcStat(i) /\ UNCHANGED <<hpc, hResponse, hThrown, env, cacheVars, genVars, saveVars>>

SpecConcurrent == InitConcurrent /\ [][NextConcurrent]_vars

\* every await of the invocation settles: the backend call, the backoff wait
\* and each filesystem operation return, so a step that is possible is taken
SpecHandlerFair == SpecHandler /\ WF_vars(NextHandler)

(***************************************************************************)
(* Properties of generateImage (checked under SpecGen)                      *)
(***************************************************************************)
EventsOf(ev) == {i \in 1..Len(genLog) : genLog[i].ev = ev}
GenEnded == gpc \in {"returned", "thrown"}
LastFailFlag == genLog[CHOOSE i \in EventsOf("fail") : \A j \in EventsOf("fail") : j <= i].flag
Caught == gpc \in {"sleep", "thrown"} /\ IsSome(error)

\* C1: one invocation calls the backend at most 3 times; every call after the
\* first directly follows an attempt whose failure was classified transient
\* (and the wait after it); an attempt that succeeds or fails with a failure
\* not classified transient ends the invocation: nothing follows it but the
\* return or the throw, and no step of the invocation is enabled afterwards.
C1_RetryBudget ==
    /\ Cardinality(EventsOf("call")) <= 3
    /\ \A i \in EventsOf("call") :
          /\ genLog[i].attempt = Cardinality({j \in EventsOf("call") : j < i})
          /\ i > 1 => /\ i > 2
                      /\ genLog[i - 1].ev = "sleep"
                      /\ genLog[i - 2].ev = "fail"
                      /\ genLog[i - 2].flag
                      /\ genLog[i - 2].attempt = genLog[i].attempt - 1
    /\ \A i \in EventsOf("ok") : i = Len(genLog) /\ gpc = "returned"
    /\ \A i \in EventsOf("fail") :
          ~genLog[i].flag => /\ gpc = "thrown"
                             /\ \A j \in EventsOf("call") : j < i
    /\ GenEnded => ~ENABLED NextGen

\* C1 witness: a third backend call was made, after two transient failures,
\* and the invocation returned.
C1_Witness ==
    /\ gpc = "returned"
    /\ Cardinality(EventsOf("call")) = 3
    /\ Cardinality({i \in EventsOf("fail") : genLog[i].flag}) = 2

\* What the claim C2 calls transient, for any failure value: a status of the
\* retryable set, or a message containing one of the terms.
TransientTerms == {"timeout", "timed out", "etimedout", "econnreset", "temporar"}
HasTransientStatus(e) == IsSome(e.status) /\ Get(e.status) \in {408, 429, 500, 502, 503, 504}
HasTransientMessage(e) ==
    IsSome(e.message) /\ \E t \in TransientTerms : includes(toLowerCase(Get(e.message)), t)

\* C2 as stated: every caught failure, whatever its kind, is classified
\* transient exactly when its status is retryable or its message has a term.
C2_Original ==
    Caught => (LastFailFlag <=> (HasTransientStatus(Get(error)) \/ HasTransientMessage(Get(error))))

\* C2 amended: a backend ApiError is classified by its status alone (its
\* message is not read); any other failure value is transient exactly when
\* its status is retryable or its message contains one of the terms.
C2_Classifier ==
    Caught =>
        LET e == Get(error)
        IN  /\ e.kind = "ApiError" => (LastFailFlag <=> HasTransientStatus(e))
            /\ e.kind # "ApiError" =>
                  (LastFailFlag <=> (HasTransientStatus(e) \/ HasTransientMessage(e)))
            /\ (e.kind = "ApiError" /\ Get(e.status) = 503) => LastFailFlag
            /\ (e.kind = "ApiError" /\ Get(e.status) = 400) => ~LastFailFlag

\* C2 witness: an ApiError of status 400 whose message says "timed out" was
\* caught and classified not transient.
C2_Witness ==
    /\ Caught
    /\ Get(error) = ApiError(400, "Request Timed Out")
    /\ ~LastFailFlag
    /\ gpc = "thrown"

\* C3: a wait happens exactly between a transiently failed attempt and the
\* next attempt: it directly follows that failure, lasts 500 after attempt 0
\* and 1000 after attempt 1, and is directly followed by the next call; no
\* wait follows the third attempt, a success or a non-transient failure.
C3_Backoff ==
    /\ \A i \in EventsOf("sleep") :
          /\ i > 1
          /\ genLog[i - 1].ev = "fail"
          /\ genLog[i - 1].flag
          /\ genLog[i - 1].attempt = genLog[i].attempt
          /\ genLog[i].attempt \in {0, 1}
          /\ genLog[i].attempt = 0 => genLog[i].ms = 500
          /\ genLog[i].attempt = 1 => genLog[i].ms = 1000
          /\ i < Len(genLog) => /\ genLog[i + 1].ev = "call"
                                /\ genLog[i + 1].attempt = genLog[i].attempt + 1
          /\ i = Len(genLog) => gpc \in {"sleep", "loop"}
    /\ \A i \in EventsOf("fail") :
          (genLog[i].attempt = 2 \/ ~genLog[i].flag) =>
              /\ i < Len(genLog)
              /\ genLog[i + 1].ev = "translate"
              /\ i + 1 = Len(genLog)
    /\ \A i \in EventsOf("fail") :
          (genLog[i].attempt < 2 /\ genLog[i].flag) => /\ i < Len(genLog)
                                                       /\ genLog[i + 1].ev = "sleep"
    /\ \A i \in EventsOf("ok") : i = Len(genLog)
    /\ gpc = "sleep" => backoffMs = genLog[Len(genLog)].ms

\* C3 witness: the third attempt failed transiently after waits of 500 and
\* 1000, and no third wait was made.
C3_Witness ==
    /\ gpc = "thrown"
    /\ [i \in EventsOf("sleep") |-> genLog[i].ms] = (3 :> 500 @@ 6 :> 1000)
    /\ \E i \in EventsOf("fail") : genLog[i].attempt = 2 /\ genLog[i].flag

\* C4: with neither key set, generateImage fails with the missing-credential
\* error before any backend call, retry, wait or handle construction; with
\* the primary absent and the secondary set (to a non-empty value), the
\* handle the invocation uses carries the secondary's value.
C4_Credential ==
    /\ (env.GEMINI_API_KEY = None /\ env.GOOGLE_API_KEY = None /\ gpc # "idle") =>
          /\ gpc = "thrown"
          /\ genThrown = Some(JsError(MissingKeyMessage))
          /\ includes(MissingKeyMessage, "environment variable is required")
          /\ genLog = <<>>
          /\ clientsMade = 0
          /\ client = None
    /\ (env.GEMINI_API_KEY = None /\ Truthy(env.GOOGLE_API_KEY) /\ gpc # "idle") =>
          /\ IsSome(client)
          /\ Get(client).apiKey = Get(env.GOOGLE_API_KEY)
          /\ genThrown # Some(JsError(MissingKeyMessage))
    /\ (genLog # <<>>) => IsSome(client)

\* C4 witness: generateImage was called with no key configured and threw.
C4_Witness ==
    /\ env.GEMINI_API_KEY = None
    /\ env.GOOGLE_API_KEY = None
    /\ gpc = "thrown"

\* C5 as stated: the terminal error is decided by the status of the last
\* failure, whatever value was thrown; any other failure's message repeats
\* the original detail (and status).
C5_Original ==
    (gpc = "thrown" /\ IsSome(error)) =>
        LET e == Get(error)
            msg == Get(Get(genThrown).message)
        IN  IF IsSome(e.status) /\ Get(e.status) \in {401, 403} THEN msg = AuthMessage
            ELSE IF IsSome(e.status) /\ Get(e.status) = 429 THEN msg = RateLimitMessage
            ELSE IF IsSome(e.status) /\ Get(e.status) >= 500 THEN msg = UnavailableMessage
            ELSE /\ IsSome(e.message) => includes(msg, Get(e.message))
                 /\ IsSome(e.status) => includes(msg, NumToString(Get(e.status)))

\* C5 amended: the terminal error of an invocation that failed in its retry
\* loop is the translation of the last caught failure.  For a backend
\* ApiError: 401/403 -> authentication message, 429 -> rate-limit message,
\* status >= 500 -> temporarily-unavailable message, any other status -> a
\* message with the status and the original message verbatim.  Any other
\* Error, whatever status it carries: "Failed to generate image: " followed
\* by its message.  A thrown value that is not an Error: the fixed
\* unknown-error message.  After retries are exhausted the terminal message
\* is never the raw message.
C5_Translation ==
    (gpc = "thrown" /\ IsSome(error)) =>
        LET e == Get(error)
            msg == Get(Get(genThrown).message)
        IN  /\ genLog[Len(genLog)].ev = "translate"
            /\ e.kind = "ApiError" =>
                  IF Get(e.status) \in {401, 403} THEN msg = AuthMessage
                  ELSE IF Get(e.status) = 429 THEN msg = RateLimitMessage
                  ELSE IF Get(e.status) \in 500..599 THEN msg = UnavailableMessage
                  ELSE /\ msg = "Gemini API request failed (status "
                                  \o NumToString(Get(e.status)) \o "): " \o Get(e.message)
                       /\ includes(msg, Get(e.message))
            /\ e.kind = "Error" => msg = "Failed to generate image: " \o Get(e.message)
            /\ e.kind = "Other" => msg = UnknownMessage
            /\ (attempt = 2 /\ LastFailFlag /\ IsSome(e.message)) => msg # Get(e.message)
            /\ includes(toLowerCase(RateLimitMessage), "rate limit")
            /\ includes(toLowerCase(UnavailableMessage), "temporarily unavailable")

\* C5 witness: retries were exhausted on a status-503 ApiError and the
\* terminal message is the temporarily-unavailable one.
C5_Witness ==
    /\ gpc = "thrown"
    /\ attempt = 2
    /\ error = Some(ApiError(503, "quota exceeded"))
    /\ Get(genThrown).message = Some(UnavailableMessage)

(***************************************************************************)
(* Properties of saveImage (checked under SpecSave and SpecStrictSave)      *)
(***************************************************************************)
SaveEnded == spc \in {"returned", "thrown"}
EmptyPayload == Len(BufferFromBase64(data)) = 0
DefaultDirs == Range(getDefaultOutputDirectories(env))
\* the caller gave a target, a file path with an extension other than .jpg/.jpeg
WrongExtensionTarget ==
    Truthy(savePath) /\ ResolvePlan(normalizePathInput(Get(savePath))).mode = "reject"
\* the caller's own attempt failed, for a reason other than the extension
CallerAttemptFailed ==
    /\ Truthy(savePath)
    /\ Len(saveLog) >= 1
    /\ saveLog[1].idx = 1
    /\ saveLog[1].outcome = "failed"
    /\ ~WrongExtensionTarget

\* C6: a saveImage called with a payload that decodes to zero bytes fails
\* with the empty-payload error, and no filesystem operation was made,
\* whatever the target.
C6_EmptyPayloadFirst ==
    (EmptyPayload /\ spc # "idle") =>
        /\ spc = "thrown"
        /\ saveThrown = Some(JsError(EmptyDataMessage))
        /\ fsLog = <<>>
        /\ dirs = {}
        /\ files = <<>>

\* C7: a caller target with a wrong file extension (and a payload that is
\* not empty) makes saveImage fail at its first attempt with the extension
\* error: no default directory is attempted, no directory is created, no
\* file is written.
C7_ExtensionFatal ==
    (WrongExtensionTarget /\ ~EmptyPayload) =>
        /\ fsLog = <<>>
        /\ dirs = {}
        /\ files = <<>>
        /\ saveResult = None
        /\ spc \in {"idle", "resolve", "catch", "thrown"}
        /\ spc # "idle" => attemptIdx = 1
        /\ spc = "thrown" =>
              /\ saveThrown =
                    Some(JsError(ExtensionMessage(extname(normalizePathInput(Get(savePath))))))
              /\ includes(Get(Get(saveThrown).message), "must use a .jpg or .jpeg extension")
              /\ Len(saveLog) = 1
              /\ saveLog[1].idx = 1
              /\ saveLog[1].outcome = "fatal"

\* C7 witness: saveImage was given /out/photo.png and threw the extension
\* error although a default directory is usable.
C7_Witness ==
    /\ savePath = Some("/out/photo.png")
    /\ spc = "thrown"
    /\ includes(Get(Get(saveThrown).message), "got: .png")
    /\ join(HomeDir, "nano-banana-images") \in usable

\* C8: when the caller's target failed for a reason other than the
\* extension and a default directory is usable, saveImage returns a path
\* under a default directory, with a warning that names the requested target.
C8_FallbackSucceeds ==
    (CallerAttemptFailed /\ (DefaultDirs \cap usable # {}) /\ SaveEnded) =>
        /\ spc = "returned"
        /\ dirname(Get(saveResult).filePath) \in DefaultDirs
        /\ IsSome(Get(saveResult).warning)
        /\ includes(Get(Get(saveResult).warning), Get(savePath))

\* C9: a successful result carries a warning only if a caller target was
\* attempted first, that attempt failed for a reason other than the
\* extension, and the attempt that succeeded is a later one; a result of
\* the caller's own attempt carries no warning.
C9_WarningOnlyAfterFallback ==
    (spc = "returned") =>
        LET won == saveLog[Len(saveLog)]
        IN  /\ won.outcome = "ok"
            /\ won.path = Get(saveResult).filePath
            /\ IsSome(Get(saveResult).warning) =>
                  /\ CallerAttemptFailed
                  /\ IsSome(attempts[1].savePath)
                  /\ won.idx > 1
                  /\ IsSome(attempts[won.idx].defaultDir)
            /\ (Truthy(savePath) /\ won.idx = 1) => Get(saveResult).warning = None

\* C9 witness: the caller's target failed and a default directory took the
\* file: the result carries the warning.
C9_Witness ==
    /\ spc = "returned"
    /\ IsSome(Get(saveResult).warning)
    /\ saveLog[1].outcome = "failed"

\* the first usable directory of the default list
FirstUsableDefault ==
    LET dd == getDefaultOutputDirectories(env)
    IN  dd[CHOOSE i \in 1..Len(dd) : dd[i] \in usable /\ \A j \in 1..(i - 1) : dd[j] \notin usable]

\* C10: with no caller target, saveImage tries the default directories in
\* priority order, stops at the first that works and touches no later one,
\* and returns the path under the earliest working default directory with no
\* warning; it succeeds whenever one default directory is usable.
C10_FirstWorkingDefault ==
    (~Truthy(savePath) /\ ~EmptyPayload /\ (DefaultDirs \cap usable # {}) /\ SaveEnded) =>
        /\ spc = "returned"
        /\ Get(saveResult).warning = None
        /\ dirname(Get(saveResult).filePath) = FirstUsableDefault
        /\ \A i \in 1..Len(saveLog) : saveLog[i].idx = i
        /\ \A i \in 1..Len(fsLog) :
              \E k \in 1..saveLog[Len(saveLog)].idx :
                  fsLog[i].path = Get(attempts[k].defaultDir)
                  \/ dirname(fsLog[i].path) = Get(attempts[k].defaultDir)

(***************************************************************************)
(* Properties of the generate_image handler (checked under SpecHandler)     *)
(***************************************************************************)
IsErrorResponse(r) == r.isError = Some(TRUE)

\* C11: the handler never throws: a failure of generateImage or of saveImage
\* is answered with an isError response whose first content item is text
\* beginning 'Error generating image:' and which has no structured record; a
\* success is answered without isError and with the structured record
\* {file_path, mime_type 'image/jpeg', model, optional text}.  A response has
\* a structured record exactly when it is not error-flagged.
C11_HandlerAlwaysAnswers ==
    /\ hThrown = None
    /\ \A i \in 1..Len(hResponse) :
          LET r == hResponse[i]
          IN  /\ IsErrorResponse(r) \/ r.isError = None
              /\ IsSome(r.structuredContent) <=> ~IsErrorResponse(r)
              /\ IsErrorResponse(r) =>
                    /\ r.content[1].type = "text"
                    /\ startsWith(r.content[1].text, "Error generating image:")
              /\ ~IsErrorResponse(r) =>
                    /\ DOMAIN Get(r.structuredContent) = {"file_path", "mime_type", "model", "text"}
                    /\ Get(r.structuredContent).file_path = Get(saveResult).filePath
                    /\ Get(r.structuredContent).mime_type = "image/jpeg"
                    /\ Get(r.structuredContent).model = model
                    /\ Get(r.structuredContent).text = Get(genResult).text
    /\ (gpc = "thrown" \/ spc = "thrown") =>
          \/ hpc = "done" /\ Len(hResponse) = 1 /\ IsErrorResponse(hResponse[1])
          \/ hpc # "done" /\ hResponse = <<>> /\ ENABLED HandlerCatch
    /\ (hpc = "done" /\ spc = "returned") =>
          Len(hResponse) = 1 /\ ~IsErrorResponse(hResponse[1])
    /\ (hpc = "done" /\ IsErrorResponse(hResponse[1])) => (gpc = "thrown" \/ spc = "thrown")

\* C11 witness: generation succeeded, saveImage failed, and the handler
\* answered with the error response.
C11_Witness ==
    /\ hpc = "done"
    /\ gpc = "returned"
    /\ spc = "thrown"
    /\ IsErrorResponse(hResponse[1])
    /\ startsWith(hResponse[1].content[1].text, "Error generating image: Failed to save")

\* the directory each attempt works in ("" for a rejected target)
AttemptDirs ==
    [k \in 1..Len(attempts) |->
        LET plan == ResolvePlan(TargetPath(attempts[k].savePath, attempts[k].defaultDir, env))
        IN  IF plan.mode = "reject" THEN "" ELSE Place(plan.mkdir)]
\* the directory a filesystem operation works in
OpDir(o) == IF o.op = "mkdir" THEN Place(o.path) ELSE dirname(o.path)
OpRank(o) == IF o.op = "mkdir" THEN 1 ELSE IF o.op = "writeFile" THEN 2 ELSE 3

\* the attempts run one after the other: the filesystem operations are those
\* of attempt 1, then those of attempt 2, ..., each attempt's in the order
\* mkdir, writeFile, stat, and an attempt starts only when all before it failed
SequentialAttempts ==
    /\ \A i \in 1..Len(saveLog) :
          saveLog[i].idx = i /\ (i < Len(saveLog) => saveLog[i].outcome = "failed")
    /\ spc \in {"resolve", "write", "stat", "catch"} =>
          /\ attemptIdx = Len(saveLog) + 1
          /\ \A i \in 1..Len(saveLog) : saveLog[i].outcome = "failed"
    /\ \A dir \in {AttemptDirs} :
       \A of \in {[i \in 1..Len(fsLog) |->
                     {k \in 1..Len(attempts) : dir[k] = OpDir(fsLog[i])}]} :
           \A i \in 1..Len(fsLog) :
              /\ Cardinality(of[i]) = 1
              /\ \A k \in of[i] : k <= attemptIdx
              /\ \A j \in (i + 1)..Len(fsLog) :
                    \A ki \in of[i], kj \in of[j] :
                        \/ ki < kj
                        \/ ki = kj /\ OpRank(fsLog[i]) < OpRank(fsLog[j])

\* C12: within one handler invocation generation has reached its terminal
\* outcome before any persistence step begins, no filesystem operation
\* happens when generation fails, and the persistence attempts are strictly
\* sequential: attempt i+1 starts only after attempt i has failed.
C12_GenerationThenSequentialAttempts ==
    /\ spc # "idle" => gpc = "returned"
    /\ (fsLog # <<>> \/ dirs # {} \/ files # <<>>) => gpc = "returned"
    /\ gpc = "thrown" => (spc = "idle" /\ fsLog = <<>> /\ saveLog = <<>>)
    /\ SequentialAttempts

\* C12 witness: the second attempt is writing after the first attempt,
\* which reached the filesystem, failed.
C12_Witness ==
    /\ gpc = "returned"
    /\ spc = "write"
    /\ attemptIdx = 2
    /\ Len(fsLog) >= 2
    /\ saveLog[1].outcome = "failed"

\* C14: in a non-error response the structured record's file_path and the
\* 'Image saved to:' line are the path of the attempt that succeeded, also
\* after a fallback; when saveImage returned, the file at that path had a
\* size greater than zero and held the decoded payload.
C14_RecordIsWhereTheFileLanded ==
    /\ spc = "returned" =>
          LET won == saveLog[Len(saveLog)]
              path == Get(saveResult).filePath
          IN  /\ won.outcome = "ok"
              /\ won.path = path
              /\ path \in DOMAIN files
              /\ Len(files[path]) > 0
              /\ files[path] = BufferFromBase64(data)
              /\ fsLog[Len(fsLog)] = FsOp("stat", path, TRUE)
    /\ \A i \in 1..Len(hResponse) :
          ~IsErrorResponse(hResponse[i]) =>
              /\ spc = "returned"
              /\ Get(hResponse[i].structuredContent).file_path = saveLog[Len(saveLog)].path
              /\ includes(hResponse[i].content[1].text,
                          "Image saved to: " \o saveLog[Len(saveLog)].path \o "\n\n")

\* C14 witness: a success response after a fallback: the caller's target
\* failed and the record names the default location that took the file.
C14_Witness ==
    /\ hpc = "done"
    /\ spc = "returned"
    /\ Len(saveLog) >= 2
    /\ Truthy(savePath)
    /\ Get(hResponse[1].structuredContent).file_path # normalizePathInput(Get(savePath))

\* the bounds of the two loops and of the answer
BoundedInvocation ==
    /\ Cardinality(EventsOf("call")) <= MAX_RETRIES + 1
    /\ \A i, j \in EventsOf("call") : i # j => genLog[i].attempt # genLog[j].attempt
    /\ Len(attempts) <= 4
    /\ Len(saveLog) <= Len(attempts)
    /\ \A i, j \in 1..Len(saveLog) : i # j => saveLog[i].idx # saveLog[j].idx
    /\ Len(hResponse) <= 1
    /\ hpc = "done" <=> Len(hResponse) = 1
    /\ hpc = "done" => (gpc = "thrown" \/ spc \in {"returned", "thrown"})

\* C19: provided every backend call, backoff wait and filesystem operation
\* returns, every handler invocation eventually reaches a terminal outcome
\* and answers exactly once: at most 3 backend calls, at most one attempt per
\* entry of the attempt list (at most 4 entries), no attempt repeated.
C19_Terminates == <>(hpc = "done") /\ []BoundedInvocation

\* C19 witness: an invocation that answered after 3 backend calls and after
\* every entry of a list of at least 3 attempts was tried.
C19_Witness ==
    /\ hpc = "done"
    /\ Cardinality(EventsOf("call")) = 3
    /\ Len(attempts) >= 3
    /\ Len(saveLog) = Len(attempts)

\* the invocation whose write reached the file last
LastWriter ==
    CHOOSE i \in DOMAIN inv : \A j \in DOMAIN inv : inv[j].wroteAt <= inv[i].wroteAt

ConcurrentSettled ==
    /\ DOMAIN inv # {}
    /\ \A i \in DOMAIN inv : inv[i].pc \in {"returned", "failed", "thrown"}

\* C13: two invocations that run concurrently with the same explicit file path
\* on a healthy filesystem both pass their own zero-size check and report the
\* requested path under every interleaving (neither fails its attempt because
\* of the other), and the file finally holds the bytes of the invocation that
\* wrote last.
C13_BothPassLastWriteWins ==
    /\ \A i \in DOMAIN inv : inv[i].pc # "failed"
    /\ ConcurrentSettled =>
          /\ \A i \in DOMAIN inv :
                /\ inv[i].pc = "returned"
                /\ Get(inv[i].result).filePath = normalizePathInput(Get(savePath))
                /\ Get(inv[i].result).warning = None
          /\ files[normalizePathInput(Get(savePath))] = inv[LastWriter].buffer

ExhaustedPrefix == "Failed to save generated image. "

PersistenceExhausted ==
    /\ spc = "thrown"
    /\ saveThrown # None
    /\ startsWith(Get(Get(saveThrown).message), ExhaustedPrefix)

\* C15: saveImage fails with the error 'Failed to save generated image. ...'
\* only after every attempt of the list (the caller's target if given, then
\* each default directory) was tried exactly once, in order, and failed; the
\* error carries the message of the last attempt's failure and the summary
\* (attempt label and message) of the first attempt's failure.
C15_ExhaustedAfterEveryAttempt ==
    PersistenceExhausted =>
        /\ Len(attempts) >= 1
        /\ attempts = BuildAttempts(savePath, getDefaultOutputDirectories(env))
        /\ Len(saveLog) = Len(attempts)
        /\ \A i \in 1..Len(saveLog) : saveLog[i].idx = i /\ saveLog[i].outcome = "failed"
        /\ Get(Get(saveThrown).message) =
              ExhaustedPrefix \o saveLog[Len(saveLog)].message \o "."
                  \o " First failure: " \o attempts[1].label \o ": " \o saveLog[1].message

C15_Witness ==
    /\ PersistenceExhausted
    /\ Truthy(savePath)
    /\ Len(attempts) >= 3
    /\ saveLog[1].message # saveLog[Len(saveLog)].message
    /\ \E i \in 1..Len(fsLog) : fsLog[i].op = "writeFile" /\ ~fsLog[i].ok

\* the fragments of the response that carry inline image bytes, in fragment order
ImageFragments(parts) == SelectSeq(parts, LAMBDA part : Truthy(part.inlineData))

\* C16: when a backend response holds more than one fragment with inline image
\* bytes, generateImage returns the re-encoding of the first such fragment in
\* fragment order; a later image fragment never replaces it.
C16_FirstImageFragmentWins ==
    (gpc = "returned" /\ IsSome(Get(response).parts)) =>
        \A images \in {ImageFragments(Get(Get(response).parts))} :
            Len(images) >= 1 =>
                Get(genResult).data =
                    BufferToBase64(SharpJpeg(BufferFromBase64(Get(images[1].inlineData))))

IsJpegExtension(ext) == toLowerCase(ext) \in {".jpg", ".jpeg"}

\* resolveOutputFilePath created the directory dir and nothing else
CreatedOnly(dir) ==
    /\ Place(dir) \in dirs'
    /\ fsLog' = Append(fsLog, FsOp("mkdir", dir, TRUE))
    /\ files' = files

\* resolveOutputFilePath left the filesystem alone
NothingCreated == dirs' = dirs /\ fsLog' = fsLog /\ files' = files

\* resolveOutputFilePath of part_000 returned path / threw an error with message
ResolveReturned(path) == spc' = "write" /\ filePath' = Some(path)
ResolveThrew(message) ==
    spc' = "catch" /\ saveError' # None /\ Get(saveError').message = Some(message)

\* resolveOutputFilePath of part_001 returned path / threw an error with message
StrictResolveReturned(path) ==
    /\ filePath' = Some(path)
    /\ \/ spc' = "strictWrite"
       \/ spc' = "thrown" /\ Get(saveThrown').message = Some(EmptyDataMessage)
StrictResolveThrew(message) ==
    spc' = "thrown" /\ saveThrown' # None /\ Get(saveThrown').message = Some(message)

\* the file-shaped targets of part_000's resolveOutputFilePath
ResolveFileTargets ==
    \A target \in {TargetPath(attempts[attemptIdx].savePath,
                              attempts[attemptIdx].defaultDir, env)} :
    \A ext \in {extname(target)} :
        /\ (Truthy(attempts[attemptIdx].savePath)
                /\ isAbsolute(Get(attempts[attemptIdx].savePath)))
              => target = Get(attempts[attemptIdx].savePath)
        /\ IsJpegExtension(ext) =>
              \/ ResolveReturned(target) /\ CreatedOnly(dirname(target))
              \/ ResolveThrew(Get(MkdirError(dirname(target)).message)) /\ dirs' = dirs
        /\ (ext # "" /\ ~IsJpegExtension(ext)) =>
              /\ ResolveThrew(ExtensionMessage(ext))
              /\ includes(ExtensionMessage(ext), "must use a .jpg or .jpeg extension")
              /\ NothingCreated

\* the file-shaped targets of part_001's resolveOutputFilePath, which takes
\* absolute paths only
StrictResolveFileTargets ==
    isAbsolute(Get(savePath)) =>
        \A target \in {Get(savePath)} :
        \A ext \in {extname(target)} :
            /\ IsJpegExtension(ext) =>
                  \/ StrictResolveReturned(target) /\ CreatedOnly(dirname(target))
                  \/ StrictResolveThrew(Get(MkdirError(dirname(target)).message))
                        /\ dirs' = dirs
            /\ (ext # "" /\ ~IsJpegExtension(ext)) =>
                  /\ StrictResolveThrew(ExtensionMessage(ext))
                  /\ includes(ExtensionMessage(ext), "must use a .jpg or .jpeg extension")
                  /\ NothingCreated

\* C17: for every file-shaped target whose extension is .jpg or .jpeg in any
\* letter case, resolveOutputFilePath (of either variant) creates the parent
\* directory and returns the path unchanged, or fails with the error of that
\* mkdir; for every target with another non-empty extension it fails with the
\* error 'must use a .jpg or .jpeg extension' and creates no directory.  The
\* path is the effective one: the absolute path the function works on.
C17_ExtensionDecides ==
    [][/\ SaveResolve => ResolveFileTargets
       /\ StrictSaveImageCall => StrictResolveFileTargets]_vars

C17_Witness ==
    \/ /\ spc = "write"
       /\ filePath = Some("/home/user/pics/a.JPEG")
       /\ fsLog = <<FsOp("mkdir", "/home/user/pics", TRUE)>>
    \/ /\ spc = "strictWrite"
       /\ filePath = Some("/srv/IMG.JPEG")
       /\ fsLog = <<FsOp("mkdir", "/srv", TRUE)>>

\* the file name has the form generated-<timestamp>-<suffix>.jpg
HasGeneratedForm(name) ==
    /\ startsWith(name, "generated-")
    /\ extname(name) = ".jpg"
    /\ \A stem \in {SubSeq(name, Len("generated-") + 1, Len(name) - Len(".jpg"))} :
          /\ \A i \in 1..Len(stem) : CharAt(stem, i) \notin {":", ".", "/"}
          /\ \E i \in 2..Len(stem) : CharAt(stem, i) = "-"

\* the directory-shaped targets of part_000's resolveOutputFilePath
ResolveDirectoryTargets ==
    \A target \in {TargetPath(attempts[attemptIdx].savePath,
                              attempts[attemptIdx].defaultDir, env)} :
        extname(target) = "" =>
            \/ /\ spc' = "write"
               /\ CreatedOnly(target)
               /\ dirname(Get(filePath')) = Place(target)
               /\ HasGeneratedForm(basename(Get(filePath')))
            \/ ResolveThrew(Get(MkdirError(target).message)) /\ dirs' = dirs

\* the directory-shaped targets of part_001's resolveOutputFilePath
StrictResolveDirectoryTargets ==
    (isAbsolute(Get(savePath)) /\ extname(Get(savePath)) = "") =>
        \/ /\ spc' \in {"strictWrite", "thrown"}
           /\ CreatedOnly(Get(savePath))
           /\ dirname(Get(filePath')) = Place(Get(savePath))
           /\ HasGeneratedForm(basename(Get(filePath')))
        \/ StrictResolveThrew(Get(MkdirError(Get(savePath)).message)) /\ dirs' = dirs

\* C18: for every directory-shaped target (no file extension)
\* resolveOutputFilePath creates the directory and returns a path whose parent
\* is the target and whose file name has the form
\* generated-<timestamp>-<suffix>.jpg, or fails with the error of that mkdir.
C18_DirectoryTargetGetsGeneratedName ==
    [][/\ SaveResolve => ResolveDirectoryTargets
       /\ StrictSaveImageCall => StrictResolveDirectoryTargets]_vars

C18_Witness ==
    \/ /\ spc = "write"
       /\ fsLog = <<FsOp("mkdir", "/out/album", TRUE)>>
       /\ dirname(Get(filePath)) = "/out/album"
    \/ /\ spc = "strictWrite"
       /\ fsLog = <<FsOp("mkdir", "/srv/img", TRUE)>>
       /\ dirname(Get(filePath)) = "/srv/img"

\* the result generateImage builds from a response alone (lines 113-137)
ResultOfResponse(r, m) ==
    LET scan == ScanParts(Get(r.parts), None, None)
    IN  [data |-> BufferToBase64(SharpJpeg(BufferFromBase64(Get(scan.imageData)))),
         mimeType |-> "image/jpeg",
         model |-> m,
         text |-> IF Truthy(scan.text) THEN scan.text ELSE None]

\* C20: in one generateImage invocation the error translation is applied once,
\* to the terminal failure (the retries are exhausted or the failure is not
\* retryable), and never to a failure that is followed by a retry; the caller
\* sees the terminal outcome only: an invocation whose earlier attempts failed
\* transiently and whose later attempt succeeded returns the result of that
\* attempt's response alone, with nothing thrown and nothing of the failures.
C20_TranslationOnceAtTheEnd ==
    /\ Cardinality(EventsOf("translate")) <= 1
    /\ \A i \in EventsOf("translate") :
          /\ i = Len(genLog)
          /\ gpc = "thrown"
          /\ i > 1
          /\ genLog[i - 1].ev = "fail"
          /\ genLog[i - 1].attempt = genLog[i].attempt
          /\ ~genLog[i - 1].flag \/ genLog[i - 1].attempt = MAX_RETRIES
          /\ genThrown = Some(toUserFacingGeminiError(Get(error)))
    /\ \A i \in EventsOf("fail") :
          (i < Len(genLog) /\ genLog[i + 1].ev = "sleep") =>
              /\ genLog[i].flag
              /\ genLog[i].attempt < MAX_RETRIES
              /\ \A j \in EventsOf("translate") : genLog[j].attempt > genLog[i].attempt
    /\ (gpc = "thrown" /\ EventsOf("call") # {}) => Cardinality(EventsOf("translate")) = 1
    /\ gpc # "thrown" => genThrown = None
    /\ gpc = "returned" =>
          /\ genThrown = None
          /\ genResult = Some(ResultOfResponse(Get(response), model))
    /\ gpc # "returned" => genResult = None

C20_Witness ==
    /\ gpc = "returned"
    /\ Cardinality(EventsOf("fail")) = 2
    /\ Cardinality(EventsOf("call")) = 3
    /\ EventsOf("translate") = {}
    /\ genResult = Some(ResultOfResponse(Get(response), model))

\* the attempts of the log that went to a default candidate directory
DefaultAttemptsTried == {i \in 1..Len(saveLog) : ~Truthy(attempts[saveLog[i].idx].savePath)}

\* C21: every default-directory attempt of saveImage is resolved in directory
\* mode, whatever the directory is called (a configured directory whose last
\* component has a dot-suffix, 'out.jpg' or 'my.images', included): it is never
\* refused for its extension, and when it succeeds the file was written to the
\* directory joined with a fresh generated-*.jpg name, so the parent of the
\* final path is the default directory.
C21_DefaultsInDirectoryMode ==
    \A i \in DefaultAttemptsTried :
        \A dir \in {Get(attempts[saveLog[i].idx].defaultDir)} :
            /\ saveLog[i].outcome # "ok" => ~includes(saveLog[i].message, ExtensionMarker)
            /\ saveLog[i].outcome = "ok" =>
                  /\ dirname(saveLog[i].path) = dir
                  /\ HasGeneratedForm(basename(saveLog[i].path))
                  /\ spc = "returned"
                  /\ Get(saveResult).filePath = saveLog[i].path
                  /\ saveLog[i].path \in DOMAIN files

(***************************************************************************)
(* Properties of getClient (checked under SpecClient)                       *)
(***************************************************************************)
\* the credential configured now: the primary key unless it is absent
ConfiguredCredential ==
    IF IsSome(env.GEMINI_API_KEY) THEN env.GEMINI_API_KEY ELSE env.GOOGLE_API_KEY

HandlesReturned == {Get(genLog[i].handle) : i \in {k \in 1..Len(genLog) : IsSome(genLog[k].handle)}}

\* C22: after any sequence of getClient calls and credential changes, the
\* handle a call returns was constructed with the credential configured at
\* that call; a new handle is created exactly when no handle is cached or the
\* configured credential differs from the cached key, and then the cached
\* handle and key are replaced together; otherwise the cached handle is
\* returned and the cache is left as it was.
C22_HandleMatchesCredential ==
    [][(GetClientCall /\ Truthy(ConfiguredCredential)) =>
          /\ IsSome(client')
          /\ Get(client').apiKey = Get(ConfiguredCredential)
          /\ cachedClient' = client'
          /\ cachedApiKey' = ConfiguredCredential
          /\ IF cachedClient = None \/ cachedApiKey # ConfiguredCredential
             THEN /\ clientsMade' = clientsMade + 1
                  /\ Get(client') \notin HandlesReturned
                  /\ cachedClient' # cachedClient
             ELSE /\ client' = cachedClient
                  /\ UNCHANGED cacheVars]_vars

C22_Witness ==
    /\ Len(genLog) = 4
    /\ genLog[1].outcome = "created"
    /\ genLog[2].outcome = "reused"
    /\ genLog[3].outcome = "created"
    /\ genLog[4].outcome = "created"
    /\ Get(genLog[4].handle).apiKey = Get(genLog[1].handle).apiKey
    /\ Get(genLog[4].handle) # Get(genLog[1].handle)

\* C25: a getClient call that fails with the missing-credential error leaves
\* the cached handle and the cached key as they were, so that a call made once
\* the same credential is configured again returns the handle cached before
\* the failure and creates none.
C25_FailureKeepsTheCache ==
    /\ [][(GetClientCall /\ ~Truthy(ConfiguredCredential)) =>
             /\ genThrown' = Some(JsError(MissingKeyMessage))
             /\ UNCHANGED cacheVars]_vars
    /\ [](\A i, j \in 1..Len(genLog) :
             (/\ i + 1 < j
              /\ IsSome(genLog[i].handle)
              /\ IsSome(genLog[j].handle)
              /\ \A k \in (i + 1)..(j - 1) : genLog[k].outcome = "threw"
              /\ Get(genLog[j].handle).apiKey = Get(genLog[i].handle).apiKey)
                 => /\ genLog[j].outcome = "reused"
                    /\ genLog[j].handle = genLog[i].handle)

C25_Witness ==
    /\ Len(genLog) >= 3
    /\ genLog[1].outcome = "created"
    /\ genLog[2].outcome = "threw"
    /\ genLog[3].outcome = "reused"
    /\ genLog[3].handle = genLog[1].handle
    /\ clientsMade = 1

\* the awaited backend call of this attempt resolved with a response that has
\* no content fragments or no fragment with inline image bytes
EmptyResponse ==
    /\ IsSome(response)
    /\ \/ ~IsSome(Get(response).parts)
       \/ \A i \in 1..Len(Get(Get(response).parts)) :
             ~Truthy(Get(Get(response).parts)[i].inlineData)

EmptyResponseMessages == {"No content parts returned", "No image data found"}

\* C24: when the backend call succeeds but the response has no content
\* fragments, or none with inline image bytes, generateImage fails with an
\* empty-response error at once: the failure is not classified transient, no
\* backoff wait and no further backend call follows it (exactly one call when
\* it is the first attempt's response), whatever text the fragments contain.
C24_EmptyResponseIsFatal ==
    EmptyResponse =>
        /\ gpc \in {"parse", "catch", "thrown"}
        /\ gpc = "catch" =>
              /\ ~shouldRetry(Get(error), attempt)
              /\ \E m \in EmptyResponseMessages : includes(Get(Get(error).message), m)
        /\ gpc = "thrown" =>
              /\ \E m \in EmptyResponseMessages : includes(Get(Get(genThrown).message), m)
              /\ Len(genLog) >= 3
              /\ genLog[Len(genLog)].ev = "translate"
              /\ genLog[Len(genLog) - 1].ev = "fail"
              /\ ~genLog[Len(genLog) - 1].flag
              /\ genLog[Len(genLog) - 2].ev = "call"
              /\ genLog[Len(genLog) - 2].attempt = attempt
              /\ Cardinality(EventsOf("call")) = attempt + 1
              /\ EventsOf("sleep") = {} => Cardinality(EventsOf("call")) = 1
              /\ ~ENABLED NextGen

C24_Witness ==
    /\ EmptyResponse
    /\ gpc = "thrown"
    /\ Cardinality(EventsOf("call")) = 1
    /\ IsSome(Get(response).parts)
    /\ \E i \in 1..Len(Get(Get(response).parts)) :
          /\ Truthy(Get(Get(response).parts)[i].text)
          /\ includes(Get(Get(Get(response).parts)[i].text), "timed out")

\* the path an attempt asks resolveOutputFilePath for, from the attempt alone
AttemptTarget(a) ==
    IF Truthy(a.savePath) THEN normalizePathInput(Get(a.savePath)) ELSE Get(a.defaultDir)

\* C23: configuration is read once per operation.  In one generateImage
\* invocation the credential and the model name are resolved at the call,
\* before the first attempt; every attempt uses that client handle and model,
\* even when the configuration changes during a wait; the model of the result
\* is the model of the requests.  In one saveImage invocation the list of
\* default directories is computed at the call and every attempt resolves its
\* own entry of that list, whatever the configuration has become.
C23_ConfigurationReadOnce ==
    /\ [][(CallGenerateImage /\ gpc' = "loop") =>
             /\ model' = getModelName(env)
             /\ Get(client').apiKey = Get(ConfiguredCredential)]_vars
    /\ [][gpc # "idle" => (client' = client /\ model' = model)]_vars
    /\ [](gpc = "returned" => Get(genResult).model = model)
    /\ [][(SaveImageCall /\ spc' = "resolve") =>
             attempts' = BuildAttempts(savePath, getDefaultOutputDirectories(env))]_vars
    /\ [][spc # "idle" => attempts' = attempts]_vars
    /\ [][(SaveResolve /\ spc' = "write") =>
             \A target \in {AttemptTarget(attempts[attemptIdx])} :
                 \/ filePath' = Some(target)
                 \/ dirname(Get(filePath')) = Place(target)]_vars

C23_Witness ==
    /\ hpc = "done"
    /\ gpc = "returned"
    /\ Cardinality(EventsOf("call")) >= 2
    /\ model # getModelName(env)
    /\ Some(Get(client).apiKey) # ConfiguredCredential
    /\ Get(genResult).model = model
    /\ spc = "returned"
    /\ Len(saveLog) >= 2
    /\ attempts # BuildAttempts(savePath, getDefaultOutputDirectories(env))

====
